---- MODULE Spec2Model ----
(***************************************************************************)
(* Model of the LUT hex codec and resource manager                         *)
(* (Src/RTL/Scripts/hex_utils.py) and of the table sizing of the trig LUT  *)
(* generator (Src/RTL/Scripts/generate_trig_luts.py).                      *)
(*                                                                         *)
(* Numeric scalars are modelled by their bit pattern: a sequence of bytes, *)
(* most significant byte first.  Text is modelled as a sequence of         *)
(* one-character strings.                                                  *)
(***************************************************************************)
EXTENDS Integers, Sequences, FiniteSets, TLC

VARIABLES
    sys_byteorder,  \* sys.byteorder of the running machine: "little" or "big"
    cpc,            \* codec: "start", "encoded", "decoded", "raw"
    cx,             \* codec: the scalar handed to the encoder
    corder,         \* codec: the BYTEORDER used for encoding and decoding
    chex,           \* codec: result of the encoder
    cdec,           \* codec: result of the decoder
    craw,           \* codec: the hex string / dtype handed to hex_to_dtype directly
    mgr,            \* manager: its class, _author_info and _fmap
    fs,             \* manager: the files of the managed directory, by path
    last,           \* manager: the last call made on it and its outcome
    gen,            \* trig generator: its arguments, its position in main()
                    \* and what it has computed
    rcv,            \* recovery test: a SIN table, its assessment and its recovery
    dsd             \* downsample generator: its arguments, its position in
                    \* main(), its LUTs and the files it wrote

codecVars == <<cpc, cx, corder, chex, cdec, craw>>
mgrVars == <<mgr, fs, last>>
toolVars == <<rcv, dsd>>
vars == <<sys_byteorder, cpc, cx, corder, chex, cdec, craw, mgr, fs, last, gen,
          rcv, dsd>>

\* the recovery test and the downsample generator before they are started
NoRcv == [pc |-> "idle"]
NoDsd == [pc |-> "idle"]

(***************************************************************************)
(* Generic helpers                                                         *)
(***************************************************************************)
Reverse(s) == [i \in 1..Len(s) |-> s[Len(s) + 1 - i]]

\* the concatenation of the sequences ss[lo], ..., ss[hi]
RECURSIVE Concat(_, _, _)
Concat(ss, lo, hi) ==
    IF lo > hi THEN <<>>
    ELSE IF lo = hi THEN ss[lo]
    ELSE LET mid == (lo + hi) \div 2
         IN  Concat(ss, lo, mid) \o Concat(ss, mid + 1, hi)
Flatten(ss) == Concat(ss, 1, Len(ss))

Range(s) == {s[i] : i \in DOMAIN s}

\* BYTEORDER enum of Allocator/Interpreter/dataclass.py
BYTEORDER == {"LITTLE", "BIG", "NATIVE"}

(***************************************************************************)
(* Results of operations that may raise                                    *)
(***************************************************************************)
NoScalar == [cls |-> "none", bytes |-> <<>>]
HexOk(h) == [ok |-> TRUE, hex |-> h, err |-> "none"]
HexRaise(e) == [ok |-> FALSE, hex |-> <<>>, err |-> e]
ValOk(v) == [ok |-> TRUE, val |-> v, err |-> "none"]
ValRaise(e) == [ok |-> FALSE, val |-> NoScalar, err |-> e]
BytesOk(b) == [ok |-> TRUE, bytes |-> b, err |-> "none"]
BytesRaise(e) == [ok |-> FALSE, bytes |-> <<>>, err |-> e]

(***************************************************************************)
(* Scalars.  cls is "np.floating", "np.integer" (numpy scalars, whose      *)
(* bytes are the bit pattern at the dtype's width) or "int" (a Python int, *)
(* whose bytes are its magnitude).                                         *)
(***************************************************************************)
IsNumpy(f) == f.cls \in {"np.floating", "np.integer"}
itemsize(dtype) == dtype.itemsize
DtypeOf(f) == [cls |-> f.cls, itemsize |-> Len(f.bytes)]

\* bytes of a numpy scalar as they lie in memory (numpy scalars are always
\* stored in the machine's own order); this is what tobytes() returns
NativeBytes(f) == IF sys_byteorder = "big" THEN f.bytes ELSE Reverse(f.bytes)

\* int.bit_length() of a magnitude given MSB first
RECURSIVE StripZeros(_)
StripZeros(bs) == IF bs = <<>> THEN <<>>
                  ELSE IF Head(bs) = 0 THEN StripZeros(Tail(bs)) ELSE bs

RECURSIVE BitsOf(_)
BitsOf(b) == IF b = 0 THEN 0 ELSE 1 + BitsOf(b \div 2)

bit_length(bs) ==
    LET m == StripZeros(bs)
    IN  IF m = <<>> THEN 0 ELSE 8 * (Len(m) - 1) + BitsOf(Head(m))

\* np.int32(i) / np.int64(i) of a non-negative Python int that fits
PadTo(bs, n) ==
    LET m == StripZeros(bs)
    IN  [i \in 1..n |-> IF i <= n - Len(m) THEN 0 ELSE m[i - (n - Len(m))]]

(***************************************************************************)
(* bytes.hex() and bytes.fromhex()                                         *)
(***************************************************************************)
HexDigits == <<"0", "1", "2", "3", "4", "5", "6", "7",
               "8", "9", "a", "b", "c", "d", "e", "f">>
UpperHexDigits == <<"0", "1", "2", "3", "4", "5", "6", "7",
                    "8", "9", "A", "B", "C", "D", "E", "F">>
Whitespace == {" "}

IsHexChar(c) == c \in Range(HexDigits) \cup Range(UpperHexDigits)
HexVal(c) == IF c \in Range(HexDigits)
             THEN (CHOOSE i \in 1..16 : HexDigits[i] = c) - 1
             ELSE (CHOOSE i \in 1..16 : UpperHexDigits[i] = c) - 1

\* bytes.hex(): two lowercase digits per byte, in sequence order
BytesToHex(bs) ==
    Flatten([i \in 1..Len(bs) |->
                <<HexDigits[(bs[i] \div 16) + 1], HexDigits[(bs[i] % 16) + 1]>>])

\* bytes.fromhex(): whitespace is skipped between byte pairs; anything else
\* that is not a pair of hex digits raises ValueError
RECURSIVE FromHex(_)
FromHex(s) ==
    IF s = <<>> THEN BytesOk(<<>>)
    ELSE IF Head(s) \in Whitespace THEN FromHex(Tail(s))
    ELSE IF Len(s) < 2 \/ ~IsHexChar(s[1]) \/ ~IsHexChar(s[2])
         THEN BytesRaise("ValueError")
    ELSE LET rest == FromHex(SubSeq(s, 3, Len(s)))
         IN  IF rest.ok
             THEN BytesOk(<<16 * HexVal(s[1]) + HexVal(s[2])>> \o rest.bytes)
             ELSE rest

(***************************************************************************)
(* HexLutManager: byte order and codec (hex_utils.py 117-261)              *)
(***************************************************************************)
_get_byte_order_symbol_from_sys == IF sys_byteorder = "little" THEN "<" ELSE ">"

_get_byte_order_symbol_from_target(target_order) ==
    CASE target_order = "BIG" -> ">"
      [] target_order = "LITTLE" -> "<"
      [] target_order = "NATIVE" -> _get_byte_order_symbol_from_sys

\* np.dtype(f).byteorder of a numpy scalar: '|' for one-byte types, '='
\* (native) for every other, a scalar never being stored swapped
dtype_byteorder(f) == IF Len(f.bytes) = 1 THEN "|" ELSE "="

\* _convert_to_byte_order:
\*  - np.dtype(f) raises TypeError for an f that is no numpy scalar.
\*  - current_order == target_order: f.tobytes(target_order) passes '<' or
\*    '>' as the `order` argument of tobytes, which accepts only the memory
\*    layouts 'C', 'F', 'A', 'K': ValueError.
\*  - otherwise: f.astype(<swapped dtype>) of a scalar yields a scalar again,
\*    which numpy stores in native order, so tobytes() gives the native bytes.
_convert_to_byte_order(f, target_order) ==
    LET target == _get_byte_order_symbol_from_target(target_order)
        f_order == dtype_byteorder(f)
        current_order == IF f_order = "=" THEN _get_byte_order_symbol_from_sys
                         ELSE f_order
    IN  IF ~IsNumpy(f) THEN BytesRaise("TypeError")
        ELSE IF current_order = target THEN BytesRaise("ValueError")
        ELSE BytesOk(NativeBytes(f))

float_to_hex(f, target_order) ==
    LET packed_bytes == _convert_to_byte_order(f, target_order)
    IN  IF packed_bytes.ok THEN HexOk(BytesToHex(packed_bytes.bytes))
        ELSE HexRaise(packed_bytes.err)

\* int_to_hex: a Python int is first given a numpy width by its bit_length;
\* numpy has no int128, so that branch raises AttributeError
int_to_hex(i, target_order) ==
    LET n == bit_length(i.bytes)
        conv == IF i.cls = "np.integer" THEN ValOk(i)
                ELSE IF i.cls = "int"
                     THEN IF n < 31
                          THEN ValOk([cls |-> "np.integer", bytes |-> PadTo(i.bytes, 4)])
                          ELSE IF n < 63
                          THEN ValOk([cls |-> "np.integer", bytes |-> PadTo(i.bytes, 8)])
                          ELSE IF n < 127 THEN ValRaise("AttributeError")
                          ELSE ValRaise("ValueError")
                ELSE ValRaise("TypeError")
        packed_bytes == _convert_to_byte_order(conv.val, target_order)
    IN  IF ~conv.ok THEN HexRaise(conv.err)
        ELSE IF packed_bytes.ok THEN HexOk(BytesToHex(packed_bytes.bytes))
        ELSE HexRaise(packed_bytes.err)

\* hex_to_dtype without the comparison of the byte count with the dtype's
\* itemsize
hex_to_dtype_no_itemsize_check(hex_str, dtype, target_order) ==
    LET packed_bytes == FromHex(hex_str)
    IN  IF Len(hex_str) % 2 # 0 THEN ValRaise("ValueError")
        ELSE IF ~packed_bytes.ok THEN ValRaise("ValueError")
        ELSE ValRaise("AttributeError")

\* hex_to_dtype.  The last statement calls np.dtype(dtype).newBYTEORDER,
\* an attribute numpy dtypes do not have (the method is newbyteorder):
\* AttributeError for every string that passes the two length checks.
hex_to_dtype(hex_str, dtype, target_order) ==
    LET packed_bytes == FromHex(hex_str)
    IN  IF Len(hex_str) % 2 # 0 THEN ValRaise("ValueError")
        ELSE IF ~packed_bytes.ok THEN ValRaise("ValueError")
        ELSE IF Len(packed_bytes.bytes) # itemsize(dtype) THEN ValRaise("ValueError")
        ELSE ValRaise("AttributeError")

hex_to_int(hex_str, dtype, target_order) == hex_to_dtype(hex_str, dtype, target_order)
hex_to_float(hex_str, dtype, target_order) == hex_to_dtype(hex_str, dtype, target_order)

(***************************************************************************)
(* Values held in the format map and in a LUT (dataclass.py 385-400)       *)
(***************************************************************************)
VStr(s) == [ty |-> "str", s |-> s]          \* s: the text, a sequence of atoms
VInt(n) == [ty |-> "int", n |-> n]
VFloat(r) == [ty |-> "float", repr |-> r]   \* r: its text
VNone == [ty |-> "none"]
VEnum(name) == [ty |-> "enum", name |-> name]
VFn(name) == [ty |-> "fn", name |-> name]
VDict(avg, min, max) == [ty |-> "dict", avg_acc |-> avg, min_acc |-> min, max_acc |-> max]
VArray(items) == [ty |-> "array", items |-> items]
VNow == [ty |-> "datetime"]
VAbsent == [ty |-> "absent"]                \* the key is not in the dict
NA == VStr(<<"N/A">>)

\* str.lower() of the enum member names that reach the header
Lower(name) ==
    CASE name = "BIG" -> "big" [] name = "LITTLE" -> "little" [] name = "NATIVE" -> "native"
      [] name = "LOW" -> "low" [] name = "MED" -> "med" [] name = "HIGH" -> "high"
      [] name = "LOWP" -> "lowp" [] name = "MEDP" -> "medp" [] name = "HIGHP" -> "highp"

\* format(): the text a value is rendered as by str.format_map
Str(v) ==
    CASE v.ty = "str" -> v.s
      [] v.ty = "int" -> <<ToString(v.n)>>
      [] v.ty = "float" -> v.repr
      [] v.ty = "none" -> <<"None">>
      [] v.ty = "enum" -> <<"<enum>">>
      [] v.ty = "fn" -> <<"<function>">>
      [] v.ty = "dict" -> <<"<dict>">>
      [] v.ty = "array" -> <<"<array>">>
      [] v.ty = "datetime" -> <<"<now>">>

(***************************************************************************)
(* HEADER (hex_utils.py 52-70).  Text is a sequence of atoms: an atom is   *)
(* one character, or stands for a run of characters that holds no newline  *)
(* and does not start a line; "~" stands for the fixed words of a line.    *)
(***************************************************************************)
Lit(a) == [k |-> "lit", a |-> a]
Field(f) == [k |-> "field", a |-> <<f>>]
CommentLine == <<"\n", "/", "/", "~">>

HEADER ==
    << Lit(<<"/", "/", "~">>), Field("fn"),
       Lit(CommentLine),
       Lit(CommentLine), Field("bit_width"),
       Lit(CommentLine), Field("endianness"),
       Lit(CommentLine), Field("table_mode"),
       Lit(CommentLine), Field("table_sz"), Lit(<<"~">>),
       Lit(CommentLine), Field("lop"),
       Lit(CommentLine), Field("scale_factor"),
       Lit(CommentLine), Field("avg_acc"),
       Lit(CommentLine), Field("min_acc"),
       Lit(CommentLine), Field("max_acc"),
       Lit(<<"/", "/", "\n">>),
       Lit(CommentLine), Field("fn"), Lit(<<"~">>),
       Lit(CommentLine), Field("cmd"),
       Lit(CommentLine),
       Lit(CommentLine), Field("ts"),
       Lit(CommentLine), Field("author_name"), Lit(<<"~">>), Field("author_email"),
       Lit(<<"\n", "/", "/", "\n", "/", "/">>) >>

\* HEADER.format_map(fmap)
format_map(template, fmap) ==
    Flatten([i \in 1..Len(template) |->
                IF template[i].k = "lit" THEN template[i].a
                ELSE Str(fmap[template[i].a[1]])])

(***************************************************************************)
(* HexLutManager and its subclasses: the format map (hex_utils.py 72-111,  *)
(* 328-349, 364-368)                                                       *)
(***************************************************************************)
ManagerClasses == {"HexLutManager", "TrigLutManager", "DownSamplerLutManager"}

\* self._fmap as __init__ sets it; 'lut' and 'acc_report' arrive with the
\* first LUT
InitFmap ==
    [fn |-> NA, bit_width |-> NA, endianness |-> NA, table_mode |-> NA,
     table_sz |-> NA, lop |-> NA, scale_factor |-> NA, avg_acc |-> NA,
     min_acc |-> NA, max_acc |-> NA, cmd |-> NA, ts |-> NA,
     author_name |-> NA, author_email |-> NA,
     lut |-> VAbsent, acc_report |-> VAbsent]

\* dict comprehension of line 105: values that are None show 'N/A'
NoneToNA(fmap) == [k \in DOMAIN fmap |-> IF fmap[k].ty = "none" THEN NA ELSE fmap[k]]

\* HexLutManager._change_format_mapping: changes fmap in place (inplace) and
\* returns a copy in which None is replaced (returned)
Base_change_format_mapping(author_info, fmap) ==
    LET f1 == [fmap EXCEPT !.ts = VNow]
        f2 == IF f1.fn.ty = "fn" THEN [f1 EXCEPT !.fn = VStr(<<f1.fn.name>>)] ELSE f1
        f3 == IF author_info.ty # "none"
              THEN [f2 EXCEPT !.author_name = author_info.name,
                              !.author_email = author_info.email]
              ELSE f2
        f4 == IF f3.endianness.ty = "enum"
              THEN [f3 EXCEPT !.endianness = VStr(<<Lower(f3.endianness.name)>>)]
              ELSE f3
    IN  [inplace |-> f4, returned |-> NoneToNA(f4)]

\* TrigLutManager._change_format_mapping: the base class's result is dropped
\* and the map changed in place is returned
Trig_change_format_mapping(author_info, fmap) ==
    LET f1 == IF fmap.lop.ty = "enum"
              THEN [fmap EXCEPT !.lop = VStr(<<Lower(fmap.lop.name)>>)] ELSE fmap
        f2 == IF f1.table_mode.ty = "enum"
              THEN [f1 EXCEPT !.table_mode = VStr(<<Lower(f1.table_mode.name)>>)] ELSE f1
        f3 == IF f2.acc_report.ty = "dict"
              THEN [f2 EXCEPT !.acc_report = VAbsent,
                              !.avg_acc = f2.acc_report.avg_acc,
                              !.min_acc = f2.acc_report.min_acc,
                              !.max_acc = f2.acc_report.max_acc]
              ELSE f2
        f4 == IF ~(f3.scale_factor.ty = "str" /\ f3.scale_factor = NA)
                 /\ ~(f3.scale_factor.ty = "int" /\ f3.scale_factor = VInt(1))
              THEN [f3 EXCEPT !.scale_factor = VStr(<<"1/">> \o Str(f3.scale_factor))]
              ELSE f3
        base == Base_change_format_mapping(author_info, f4)
    IN  [inplace |-> base.inplace, returned |-> base.inplace]

_change_format_mapping(class, author_info, fmap) ==
    IF class = "TrigLutManager" THEN Trig_change_format_mapping(author_info, fmap)
    ELSE Base_change_format_mapping(author_info, fmap)

\* _get_header: the header text, and self._fmap as the call leaves it
_get_header(m) ==
    LET changed == _change_format_mapping(m.class, m.author_info, m.fmap)
    IN  [header |-> format_map(HEADER, changed.returned),
         fmap |-> changed.inplace]

\* __init__: sets the format map and renders a first header
NewManager(class, author_info) ==
    LET m0 == [class |-> class, author_info |-> author_info, fmap |-> InitFmap]
    IN  [m0 EXCEPT !.fmap = _get_header(m0).fmap]

\* META_INFO.AUTHOR_CREDENTIALS: get_git_author() gives a pair or None
AuthorInfos ==
    {[ty |-> "pair", name |-> VStr(<<"author">>), email |-> VStr(<<"a@b">>)]}

(***************************************************************************)
(* underline_matches (Allocator/Interpreter/helpers.py 78-153), as the     *)
(* generators call it: a literal pattern, match_all=True                   *)
(***************************************************************************)
\* str.find: the first index >= start where pat occurs, 0 if none
Find(text, pat, start) ==
    LET hits == {i \in start..(Len(text) - Len(pat) + 1) :
                    SubSeq(text, i, i + Len(pat) - 1) = pat}
    IN  IF hits = {} THEN 0 ELSE CHOOSE i \in hits : \A j \in hits : i <= j

Repeat(c, n) == [i \in 1..n |-> c]

\* underline_match
underline_match(text, to_match, start_index) ==
    LET i == Find(text, to_match, start_index)
    IN  [found |-> i # 0,
         end_index |-> i + Len(to_match),
         underlined |-> Repeat(" ", i - start_index) \o Repeat("^", Len(to_match))]

RECURSIVE UnderlineAll(_, _, _)
UnderlineAll(text, to_match, prev_i) ==
    LET m == underline_match(text, to_match, prev_i)
    IN  IF to_match = <<>> \/ ~m.found THEN <<>>
        ELSE m.underlined \o UnderlineAll(text, to_match, m.end_index)

underline_matches(text, to_match) ==
    text \o <<"\n">> \o UnderlineAll(text, to_match, 1)

(***************************************************************************)
(* Text files                                                              *)
(***************************************************************************)
\* iteration over an open text file: the lines, each with its newline
RECURSIVE Lines(_)
Lines(text) ==
    LET newlines == {i \in DOMAIN text : text[i] = "\n"}
        first == CHOOSE i \in newlines : \A j \in newlines : i <= j
    IN  IF text = <<>> THEN <<>>
        ELSE IF newlines = {} THEN <<text>>
        ELSE <<SubSeq(text, 1, first)>> \o Lines(SubSeq(text, first + 1, Len(text)))

\* the number of lines of a text that does not end in a newline
CountLines(text) == 1 + Cardinality({i \in DOMAIN text : text[i] = "\n"})

startswith_slashes(ln) == Len(ln) >= 2 /\ ln[1] = "/" /\ ln[2] = "/"

\* str.strip()
RECURSIVE LStrip(_)
LStrip(ln) == IF ln # <<>> /\ Head(ln) \in {" ", "\n"} THEN LStrip(Tail(ln)) ELSE ln
strip(ln) == Reverse(LStrip(Reverse(LStrip(ln))))

\* itertools.dropwhile(lambda ln: ln.startswith('//') or ln == '\n', f)
RECURSIVE dropwhile_header(_)
dropwhile_header(lines) ==
    IF lines # <<>> /\ (startswith_slashes(Head(lines)) \/ Head(lines) = <<"\n">>)
    THEN dropwhile_header(Tail(lines))
    ELSE lines

\* a file: its text, and beside it the call that wrote it
NoWrite == [lut |-> <<>>, bit_width |-> 0, write_type |-> "none",
            target_order |-> "none", header_lines |-> 0, written |-> 0]
NoFile == [exists |-> FALSE, text |-> <<>>, wrote |-> NoWrite]

(***************************************************************************)
(* Path resolution (hex_utils.py 263-287)                                  *)
(***************************************************************************)
\* str.rfind, 0 if the character does not occur
RFind(p, c) ==
    LET hits == {i \in DOMAIN p : p[i] = c}
    IN  IF hits = {} THEN 0 ELSE CHOOSE i \in hits : \A j \in hits : j <= i

\* os.path.splitext: the extension starts at the last dot of the last path
\* component, unless only dots precede it there
splitext(p) ==
    LET sepIndex == RFind(p, "/")
        dotIndex == RFind(p, ".")
    IN  IF dotIndex > sepIndex
           /\ \E j \in (sepIndex + 1)..(dotIndex - 1) : p[j] # "."
        THEN [root |-> SubSeq(p, 1, dotIndex - 1), ext |-> SubSeq(p, dotIndex, Len(p))]
        ELSE [root |-> p, ext |-> <<>>]

DotHex == <<".", "h", "e", "x">>
NoPath == <<>>

\* _get_valid_file_path refusing whenever ow is not truthy, as the test
\* 'not ow' of hex_writer.py does
_get_valid_file_path_not_ow(file_name, ow, files) ==
    LET ext == splitext(file_name).ext
        fixed == IF ext = <<>> THEN file_name \o DotHex ELSE file_name
    IN  IF ext # <<>> /\ ext # DotHex
        THEN [ok |-> FALSE, err |-> "ValueError", path |-> NoPath]
        ELSE IF ow # "True" /\ files[fixed].exists
        THEN [ok |-> FALSE, err |-> "FileExistsError", path |-> fixed]
        ELSE [ok |-> TRUE, err |-> "none", path |-> fixed]

\* _get_valid_file_path replacing any other extension by '.hex' instead of
\* raising
_get_valid_file_path_replace_ext(file_name, ow, files) ==
    LET parts == splitext(file_name)
        fixed == IF parts.ext = DotHex THEN file_name ELSE parts.root \o DotHex
    IN  IF ow = "False" /\ files[fixed].exists
        THEN [ok |-> FALSE, err |-> "FileExistsError", path |-> fixed]
        ELSE [ok |-> TRUE, err |-> "none", path |-> fixed]

\* _get_valid_file_path; ow is "True", "False" or "None"; files maps every
\* path to its file
_get_valid_file_path(file_name, ow, files) ==
    LET ext == splitext(file_name).ext
        fixed == IF ext = <<>> THEN file_name \o DotHex ELSE file_name
    IN  IF ext # <<>> /\ ext # DotHex
        THEN [ok |-> FALSE, err |-> "ValueError", path |-> NoPath]
        ELSE IF ow = "False" /\ files[fixed].exists
        THEN [ok |-> FALSE, err |-> "FileExistsError", path |-> fixed]
        ELSE [ok |-> TRUE, err |-> "none", path |-> fixed]

(***************************************************************************)
(* write_lut_to_hex and read_lut_from_hex (hex_utils.py 289-321, 351-357,  *)
(* 370-376)                                                                *)
(***************************************************************************)
\* dataclasses.asdict(lut) merged into the format map by dict.update
UpdateWithLut(fmap, lut) ==
    [k \in DOMAIN fmap |-> IF k \in DOMAIN lut THEN lut[k] ELSE fmap[k]]

ApplyWriteType(write_type, entry, target_order) ==
    IF write_type = "float_to_hex" THEN float_to_hex(entry, target_order)
    ELSE int_to_hex(entry, target_order)

\* the loop over lut.lut: the text written until an entry fails to encode
RECURSIVE WriteEntries(_, _, _)
WriteEntries(entries, write_type, target_order) ==
    IF entries = <<>> THEN [text |-> <<>>, err |-> "none", written |-> 0]
    ELSE LET h == ApplyWriteType(write_type, Head(entries), target_order)
             rest == WriteEntries(Tail(entries), write_type, target_order)
         IN  IF ~h.ok THEN [text |-> <<>>, err |-> h.err, written |-> 0]
             ELSE [text |-> <<"\n">> \o h.hex \o rest.text, err |-> rest.err,
                   written |-> 1 + rest.written]

\* write_lut_to_hex: the manager and the files it leaves, and its outcome.
\* open(file_path, 'w') empties the file; what was written before an entry
\* fails stays in the file when the with-block closes it.
write_lut_to_hex(m, files, file_name, lut, write_type, ow, target_order) ==
    LET m1 == [m EXCEPT !.fmap = UpdateWithLut(m.fmap, lut)]
        fp == _get_valid_file_path(file_name, ow, files)
        hd == _get_header(m1)
        body == WriteEntries(lut.lut.items, write_type, target_order)
        written == [exists |-> TRUE, text |-> hd.header \o body.text,
                    wrote |-> [lut |-> lut.lut.items, bit_width |-> lut.bit_width.n,
                               write_type |-> write_type,
                               target_order |-> target_order,
                               header_lines |-> CountLines(hd.header),
                               written |-> body.written]]
    IN  IF ~fp.ok
        THEN [mgr |-> m1, fs |-> files, err |-> fp.err, path |-> fp.path, header |-> <<>>]
        ELSE [mgr |-> [m1 EXCEPT !.fmap = hd.fmap],
              fs |-> [files EXCEPT ![fp.path] = written],
              err |-> body.err, path |-> fp.path, header |-> hd.header]

\* the loop over the lines after the header: the values decoded until a
\* line fails to decode
RECURSIVE ReadLines(_, _, _)
ReadLines(lines, dtype, target_order) ==
    IF lines = <<>> THEN [data |-> <<>>, err |-> "none"]
    ELSE LET v == hex_to_float(strip(Head(lines)), dtype, target_order)
             rest == ReadLines(Tail(lines), dtype, target_order)
         IN  IF ~v.ok THEN [data |-> <<>>, err |-> v.err]
             ELSE [data |-> <<v.val>> \o rest.data, err |-> rest.err]

\* read_lut_from_hex (read_type is hex_to_float or hex_to_dtype, which are
\* the same function); a raised error returns no data
read_lut_from_hex(files, file_name, dtype, target_order) ==
    LET fp == _get_valid_file_path(file_name, "None", files)
        after_header == dropwhile_header(Lines(files[fp.path].text))
        r == ReadLines(after_header, dtype, target_order)
    IN  IF ~fp.ok THEN [data |-> <<>>, err |-> fp.err, path |-> fp.path]
        ELSE IF ~files[fp.path].exists
        THEN [data |-> <<>>, err |-> "FileNotFoundError", path |-> fp.path]
        ELSE IF r.err # "none" THEN [data |-> <<>>, err |-> r.err, path |-> fp.path]
        ELSE [data |-> r.data, err |-> "none", path |-> fp.path]

(***************************************************************************)
(* The trig generator (generate_trig_luts.py main): sizing of the tables   *)
(* of SIN, COS, ASIN and ACOS from -bram and -bw                           *)
(***************************************************************************)
\* TRIGLUTDEFS in definition order, and the members of its two groups
TRIGLUTDEFS == <<"SIN", "COS", "TAN", "ASIN", "ACOS", "ATAN">>
_SINUSOIDS == {"SIN", "COS"}
_ARC_SINUSOIDS == {"ASIN", "ACOS"}

\* the values of the members of TRIGFOLD and TRIGPREC
TRIGFOLD == [LOW |-> 0, MED |-> 1, HIGH |-> 2]
TRIGPREC == [LOWP |-> 0, MEDP |-> 1, HIGHP |-> 2]

IndexOf(seq, x) == CHOOSE i \in DOMAIN seq : seq[i] = x

\* TRIGLUTS(**{k: 1 for k in TRIGLUTDEFS.fields()}): member i of n has the
\* value 1 << (n - 1 - i)
TRIG_LUTS(name) == 2 ^ (Len(TRIGLUTDEFS) - IndexOf(TRIGLUTDEFS, name))

\* the bit string with the first flag as the least significant bit
bools2bitstr_lsb(flags) ==
    LET bit(i) == IF TRIGLUTDEFS[i] \in flags THEN 2 ^ (i - 1) ELSE 0
        RECURSIVE Sum(_)
        Sum(i) == IF i = 0 THEN 0 ELSE bit(i) + Sum(i - 1)
    IN  Sum(Len(TRIGLUTDEFS))

\* bools2bitstr(*trig_args.values()): the first flag is the most significant bit
bools2bitstr(flags) ==
    LET bit(i) == IF TRIGLUTDEFS[i] \in flags THEN 2 ^ (Len(TRIGLUTDEFS) - i) ELSE 0
        RECURSIVE Sum(_)
        Sum(i) == IF i = 0 THEN 0 ELSE bit(i) + Sum(i - 1)
    IN  Sum(Len(TRIGLUTDEFS))

\* trig_opts & TRIG_LUTS.<name>.value
Selected(trig_opts, name) == (trig_opts \div TRIG_LUTS(name)) % 2 = 1

\* what argparse leaves in args['table_mode'] and args['hp']: the default
\* member when the option is absent, else the list of the values given
ArgEnum(name) == [ty |-> "enum", name |-> name, items |-> <<>>]
ArgList(items) == [ty |-> "list", name |-> "", items |-> items]

\* lines 208-215: the functions to generate, as a bit string
trig_opts_of(flags, all) ==
    IF flags = {}
    THEN LET every == 2 ^ Len(TRIGLUTDEFS) - 1
         IN  IF ~all THEN every - (TRIG_LUTS("COS") + TRIG_LUTS("ACOS")) ELSE every
    ELSE bools2bitstr(flags)

\* lines 217-221: table_mode becomes a dict of the default for every
\* function, unless values were given: a list is no member of TRIGFOLD and
\* stays a list
table_mode_dict(table_mode) ==
    IF (table_mode.ty = "list" /\ table_mode.items = <<>>) \/ table_mode.ty = "enum"
    THEN [ty |-> "dict", name |-> "", items |-> <<>>,
          map |-> [k \in Range(TRIGLUTDEFS) |-> "HIGH"]]
    ELSE [ty |-> "list", name |-> "", items |-> table_mode.items,
          map |-> [k \in {} |-> "HIGH"]]

\* helpers.pairwise: zip(it, it), the non-overlapping pairs
pairwise(t) == [i \in 1..(Len(t) \div 2) |-> <<t[2 * i - 1], t[2 * i]>>]

\* hp_dict without the validation of lines 231-264: the pairs are taken as
\* they come
hp_dict_unchecked(hp) ==
    LET items == hp.items
        pairs == pairwise(items)
    IN  IF hp.ty = "list" /\ Len(items) = 1 /\ items[1] \in DOMAIN TRIGPREC
        THEN [err |-> "none", map |-> [k \in Range(TRIGLUTDEFS) |-> items[1]]]
        ELSE IF hp.ty = "enum" \/ items = <<>>
        THEN [err |-> "none", map |-> [k \in Range(TRIGLUTDEFS) |-> "LOWP"]]
        ELSE [err |-> "none",
              map |-> [k \in {pairs[i][1] : i \in DOMAIN pairs} |->
                          LET i == CHOOSE j \in DOMAIN pairs :
                                      /\ pairs[j][1] = k
                                      /\ \A h \in DOMAIN pairs : pairs[h][1] = k => h <= j
                          IN  pairs[i][2]]]

\* lines 223-264: hp becomes a dict; argparse.ArgumentError for duplicated
\* functions, an odd length or a pair out of order
hp_dict(hp) ==
    LET items == hp.items
        fns == {i \in DOMAIN items : items[i] \in Range(TRIGLUTDEFS)}
        duplicated == \E i, j \in fns : i # j /\ items[i] = items[j]
        pairs == pairwise(items)
        out_of_order == \E i \in DOMAIN pairs :
                            \/ pairs[i][1] \notin Range(TRIGLUTDEFS)
                            \/ pairs[i][2] \notin DOMAIN TRIGPREC
        none == [k \in {} |-> "LOWP"]
    IN  IF hp.ty = "list" /\ Len(items) = 1 /\ items[1] \in DOMAIN TRIGPREC
        THEN [err |-> "none", map |-> [k \in Range(TRIGLUTDEFS) |-> items[1]]]
        ELSE IF hp.ty = "enum" \/ items = <<>>
        THEN [err |-> "none", map |-> [k \in Range(TRIGLUTDEFS) |-> "LOWP"]]
        ELSE IF duplicated \/ Len(items) % 2 # 0 \/ out_of_order
        THEN [err |-> "ArgumentError", map |-> none]
        ELSE [err |-> "none",
              map |-> [k \in {pairs[i][1] : i \in DOMAIN pairs} |->
                          LET i == CHOOSE j \in DOMAIN pairs :
                                      /\ pairs[j][1] = k
                                      /\ \A h \in DOMAIN pairs : pairs[h][1] = k => h <= j
                          IN  pairs[i][2]]]

Max(a, b) == IF a >= b THEN a ELSE b

\* a scale factor that grows with the precision mode
_calculate_scale_factor_by_prec(table_mode, table_prec) ==
    Max(TRIGFOLD[table_mode] * TRIGPREC[table_prec], 1)

\* _calculate_scale_factor (lines 323-324)
_calculate_scale_factor(table_mode, table_prec) ==
    Max(TRIGFOLD[table_mode] * (TRIGPREC.HIGHP - TRIGPREC[table_prec]), 1)

\* the lookups args['table_mode'][k] and args['hp'][k] of one pass of a
\* sizing loop, and the sz they give
SizeOf(g, k) ==
    IF k \notin DOMAIN g.hp THEN [err |-> "KeyError", sz |-> 0]
    ELSE IF g.table_mode.map[k] = "MED" THEN [err |-> "NotImplementedError", sz |-> 0]
    ELSE [err |-> "none",
          sz |-> g.N_TABLE_ENTRIES \div
                    _calculate_scale_factor(g.table_mode.map[k], g.hp[k])]

\* np.arange(sz) and np.linspace(0, stop, sz), as the indices of their
\* samples: sample i of phis[k] is (2 i + 1) pi / N_TABLE_ENTRIES, sample i
\* of xs[k] is i stop / (sz - 1)
arange(sz) == [i \in 1..sz |-> i - 1]
linspace(sz) == [i \in 1..sz |-> i - 1]

\* lines 357-358: sample i of phis[k] is 2 pi i / N_TABLE_ENTRIES +
\* pi / N_TABLE_ENTRIES, held as the fraction num / den of pi
SinusoidPhi(i, N_TABLE_ENTRIES) == [num |-> 2 * i + 1, den |-> N_TABLE_ENTRIES]

\* a sizing loop (lines 344-358 and 417-426) over the functions of a group
\* in the order of the dict: the domains built until a pass raises
RECURSIVE SizeLoop(_, _, _, _)
SizeLoop(g, ks, domains, build) ==
    IF ks = <<>> THEN [err |-> "none", domains |-> domains]
    ELSE LET s == SizeOf(g, Head(ks))
             domain == IF build = "arange" THEN arange(s.sz) ELSE linspace(s.sz)
         IN  IF s.err # "none" THEN [err |-> s.err, domains |-> domains]
             ELSE SizeLoop(g, Tail(ks), (Head(ks) :> domain) @@ domains, build)

InOrder(group) == SelectSeq(TRIGLUTDEFS, LAMBDA k : k \in group)

(***************************************************************************)
(* Thresholds, and the real arithmetic of the sizing of TAN and ATAN       *)
(***************************************************************************)
\* a threshold is the fraction num / den: one given on the command line
\* (-k 1/2), the default of its option, or None
Threshold(num, den) == [given |-> TRUE, num |-> num, den |-> den]
Default(num, den) == [given |-> FALSE, num |-> num, den |-> den]
NoThreshold == [given |-> FALSE, num |-> 0, den |-> 1]

\* a type that refuses only the thresholds that are not positive
kthresh_positive(v) == IF v.num <= 0 THEN "ArgumentTypeError" ELSE "none"

\* kthresh (lines 47-59): the type of -k, -tan-k and -atan-k
kthresh(v) == IF v.num >= v.den \/ v.num <= 0 THEN "ArgumentTypeError" ELSE "none"

\* np.float64 values are held to six decimals, as integers counting
\* Unit-ths; pi and LN2 are np.pi and log(2) in that unit
Unit == 1000000
pi == 3141593
LN2 == 693147
Abs(x) == IF x < 0 THEN -x ELSE x
Sign(x) == IF x < 0 THEN -1 ELSE 1

\* the quotient and remainder of a * b by d, for a, b >= 0 and d > 0, by
\* binary long multiplication: no intermediate value leaves 32 bits
MulDivStep(half, odd, a, d) ==
    LET r2 == 2 * half.r + (IF odd THEN a % d ELSE 0)
    IN  [q |-> 2 * half.q + (IF odd THEN a \div d ELSE 0) + r2 \div d, r |-> r2 % d]
RECURSIVE MulDivRem(_, _, _)
MulDivRem(a, b, d) ==
    IF b = 0 THEN [q |-> 0, r |-> 0]
    ELSE MulDivStep(MulDivRem(a, b \div 2, d), b % 2 = 1, a, d)

\* a * b / d, rounded towards zero
MulDiv(a, b, d) == Sign(a) * Sign(b) * Sign(d) * MulDivRem(Abs(a), Abs(b), Abs(d)).q

\* np.ceil of a quotient
Ceil(qr) == qr.q + (IF qr.r > 0 THEN 1 ELSE 0)

\* int(np.ceil(np.log2(sz))) of a whole sz >= 1 (line 390)
RECURSIVE CeilLog2(_)
CeilLog2(sz) == IF sz <= 1 THEN 0 ELSE 1 + CeilLog2((sz + 1) \div 2)

\* a positive value as m * 2^e with m in [1, 2)
RECURSIVE Normalise(_, _)
Normalise(m, e) ==
    IF m >= 2 * Unit THEN Normalise(m \div 2, e + 1) ELSE [m |-> m, e |-> e]

\* N_current**2 + 1 (lines 453, 456), as m * 2^e
SquarePlusOneOf(a) == Normalise(MulDiv(a.m, a.m, Unit) + Unit \div (4 ^ a.e), 2 * a.e)
denominator_f_prime(N_current) == SquarePlusOneOf(Normalise(Abs(N_current), 0))

\* np.log of m * 2^e: e log(2) + 2 atanh((m - 1) / (m + 1)), by the series
\* of atanh
RECURSIVE AtanhSeries(_, _, _)
AtanhSeries(term, z2, i) ==
    IF term = 0 THEN 0
    ELSE term \div i + AtanhSeries(MulDiv(term, z2, Unit), z2, i + 2)
LogSeries(x, z) == x.e * LN2 + 2 * AtanhSeries(z, MulDiv(z, z, Unit), 1)
log(x) == LogSeries(x, MulDiv(x.m - Unit, Unit, x.m + Unit))

\* line 453: f(N) = ln(N^2 + 1) - 2 N k
f_N(N_current, k) ==
    log(denominator_f_prime(N_current)) - MulDiv(2 * N_current, k.num, k.den)

\* lines 456-457: f'(N) = 2 N / (N^2 + 1) - 2 k
f_prime_NOf(N_current, x, k) ==
    Sign(N_current) * (MulDiv(2 * Abs(N_current), Unit, x.m) \div (2 ^ x.e))
        - MulDiv(2 * k.num, Unit, k.den)
f_prime_N(N_current, k) == f_prime_NOf(N_current, denominator_f_prime(N_current), k)

\* line 464
N_next(N_current, f, f_prime) == N_current - MulDiv(f, Unit, f_prime)

\* abs(x) < tolerance (lines 459, 469): the tolerance 1e-7 is a tenth of the
\* unit, so a value counted in units is below it when it is below one unit
BelowTolerance(x) == Abs(x) < 1

\* the result of newton_raphson_N: a value, or None
NoN == [ret |-> "unset", val |-> 0]
NoneN == [ret |-> "None", val |-> 0]
ValueN(v) == [ret |-> "value", val |-> v]

\* lines 449-450: the first iterate and the iteration limit
N_0 == 8
max_iter == 100

\* a pass that returns its iterate without the test of line 469
NewtonPassOf_untested(N_current, iter, f_prime, k) ==
    IF BelowTolerance(f_prime)
    THEN [N_current |-> N_current, iter |-> iter + 1, N |-> NoneN]
    ELSE [N_current |-> N_current, iter |-> iter + 1,
          N |-> ValueN(N_next(N_current, f_N(N_current, k), f_prime))]

\* a loop without the iteration limit
NewtonPass_unbounded(N_current, iter, k) ==
    LET f_prime == f_prime_N(N_current, k)
        next == N_next(N_current, f_N(N_current, k), f_prime)
    IN  IF BelowTolerance(f_prime)
        THEN [N_current |-> N_current, iter |-> iter + 1, N |-> NoneN]
        ELSE IF BelowTolerance(next - N_current)
        THEN [N_current |-> N_current, iter |-> iter + 1, N |-> ValueN(next)]
        ELSE [N_current |-> next, iter |-> iter + 1, N |-> NoN]

\* one pass of the loop of newton_raphson_N (lines 451-472), or its end
\* (line 475), from iterate N_current after iter passes
NewtonPassOf(N_current, iter, f_prime, k) ==
    IF BelowTolerance(f_prime)
    THEN [N_current |-> N_current, iter |-> iter + 1, N |-> NoneN]
    ELSE LET next == N_next(N_current, f_N(N_current, k), f_prime)
         IN  IF BelowTolerance(next - N_current)
             THEN [N_current |-> N_current, iter |-> iter + 1, N |-> ValueN(next)]
             ELSE [N_current |-> next, iter |-> iter + 1, N |-> NoN]
NewtonPass(N_current, iter, k) ==
    IF iter >= max_iter THEN [N_current |-> N_current, iter |-> iter, N |-> NoneN]
    ELSE NewtonPassOf(N_current, iter, f_prime_N(N_current, k), k)

NoDomains == [k \in {} |-> <<>>]
NoGen ==
    [pc |-> "idle", bram |-> 0, bw_int |-> 0, table_mode |-> ArgEnum("HIGH"),
     hp |-> ArgEnum("LOWP"), flags |-> {}, all |-> FALSE, k |-> NoThreshold,
     tan_k |-> NoThreshold, atan_k |-> NoThreshold,
     argv |-> [table_mode |-> ArgEnum("HIGH"), hp |-> ArgEnum("LOWP")],
     auto_off |-> FALSE, N_TABLE_ENTRIES |-> 0, trig_opts |-> 0,
     phis |-> NoDomains, xs |-> NoDomains, N_current |-> 0, iter |-> 0, N |-> NoN,
     out |-> {}, luts_to_w |-> <<>>, files |-> {}, err |-> "none", at |-> "none"]

\* an exception leaves main(); 'at' keeps the position it was raised from
Raised(g, e) == [g EXCEPT !.pc = "raised", !.err = e, !.at = g.pc]

\* lines 328-358: the domains of SIN and COS
SinusoidLoopDone(g, r) ==
    IF r.err = "none" THEN [g EXCEPT !.pc = "sinusoids", !.phis = r.domains]
    ELSE [Raised(g, r.err) EXCEPT !.phis = r.domains]
SinusoidBlock(g) ==
    IF ~(Selected(g.trig_opts, "SIN") \/ Selected(g.trig_opts, "COS"))
    THEN [g EXCEPT !.pc = "sinusoids"]
    ELSE IF g.table_mode.ty # "dict" THEN Raised(g, "AttributeError")
    ELSE SinusoidLoopDone(g, SizeLoop(g, InOrder(_SINUSOIDS), g.phis, "arange"))

\* a TAN domain sized from the budget, as those of the sinusoids are
TanSz_from_budget(g) ==
    IF g.table_mode.ty # "dict" THEN [err |-> "TypeError", sz |-> 0]
    ELSE [err |-> "none",
          sz |-> g.N_TABLE_ENTRIES \div
                    _calculate_scale_factor(g.table_mode.map["TAN"], "LOWP")]

\* lines 384-400: the size of the TAN domain. A list cannot be indexed by
\* TRIGLUTDEFS.TAN; the LOW case reads the sz the loop over the sinusoids
\* left behind (line 396)
TanSz(g) ==
    IF g.table_mode.ty # "dict" THEN [err |-> "TypeError", sz |-> 0]
    ELSE IF g.table_mode.map["TAN"] = "HIGH"
    THEN [err |-> "none",
          sz |-> 2 ^ CeilLog2(Ceil(MulDivRem(pi, g.tan_k.den,
                                              2 * g.tan_k.num * Unit)) + 1)]
    ELSE IF g.table_mode.map["TAN"] = "MED"
    THEN [err |-> "NotImplementedError", sz |-> 0]
    ELSE IF ~(Selected(g.trig_opts, "SIN") \/ Selected(g.trig_opts, "COS"))
    THEN [err |-> "UnboundLocalError", sz |-> 0]
    ELSE IF SizeOf(g, "COS").sz = 0 THEN [err |-> "ZeroDivisionError", sz |-> 0]
    ELSE [err |-> "none", sz |-> g.N_TABLE_ENTRIES]

\* lines 360-402: the domain of TAN
TanBlockDone(g, r) ==
    IF r.err # "none" THEN Raised(g, r.err)
    ELSE [g EXCEPT !.pc = "tan", !.phis = ("TAN" :> linspace(r.sz)) @@ g.phis]
TanBlock(g) ==
    IF ~Selected(g.trig_opts, "TAN") THEN [g EXCEPT !.pc = "tan"]
    ELSE TanBlockDone(g, TanSz(g))

\* lines 404-426: the domains of ASIN and ACOS
ArcSinusoidLoopDone(g, r) ==
    IF r.err = "none" THEN [g EXCEPT !.pc = "arc_sinusoids", !.xs = r.domains]
    ELSE [Raised(g, r.err) EXCEPT !.xs = r.domains]
ArcSinusoidBlock(g) ==
    IF ~(Selected(g.trig_opts, "ASIN") \/ Selected(g.trig_opts, "ACOS"))
    THEN [g EXCEPT !.pc = "arc_sinusoids"]
    ELSE IF g.table_mode.ty # "dict" THEN Raised(g, "AttributeError")
    ELSE ArcSinusoidLoopDone(g, SizeLoop(g, InOrder(_ARC_SINUSOIDS), g.xs, "linspace"))

\* lines 428, 477-480 and 498-505: the fold mode of ATAN; HIGH calls
\* newton_raphson_N, and LOW takes the size from the budget
AtanFold(g) ==
    IF ~Selected(g.trig_opts, "ATAN") THEN [g EXCEPT !.pc = "atan"]
    ELSE IF g.table_mode.ty # "dict" THEN Raised(g, "TypeError")
    ELSE IF g.table_mode.map["ATAN"] = "HIGH"
    THEN [g EXCEPT !.pc = "newton", !.N_current = N_0 * Unit, !.iter = 0]
    ELSE IF g.table_mode.map["ATAN"] = "MED" THEN Raised(g, "NotImplementedError")
    ELSE [g EXCEPT !.pc = "atan",
                   !.xs = ("ATAN" :> linspace(g.N_TABLE_ENTRIES)) @@ g.xs]

\* an ATAN domain of ceil(N) entries, without the rounding to a power of two
AtanSz_ceil(N) ==
    IF N <= 0 THEN [err |-> "ValueError", sz |-> 0]
    ELSE [err |-> "none", sz |-> Ceil([q |-> N \div Unit, r |-> N % Unit])]

\* line 496: sz = 1 << int(np.ceil(np.log2(N))). np.log2 is nan for a
\* negative N and -inf for 0, which int() refuses; a shift count below 0
\* (N <= 1/2) is refused as well
AtanSz(N) ==
    IF N < 0 THEN [err |-> "ValueError", sz |-> 0]
    ELSE IF N = 0 THEN [err |-> "OverflowError", sz |-> 0]
    ELSE IF 2 * N <= Unit THEN [err |-> "ValueError", sz |-> 0]
    ELSE [err |-> "none",
          sz |-> 2 ^ CeilLog2(Ceil([q |-> N \div Unit, r |-> N % Unit]))]

\* lines 481-509, after newton_raphson_N returned N: err is bound only when
\* N is not None, and the message at lines 491-494 reads it
AtanBlockDone(g, r) ==
    IF r.err # "none" THEN Raised(g, r.err)
    ELSE [g EXCEPT !.pc = "atan", !.xs = ("ATAN" :> linspace(r.sz)) @@ g.xs]
\* lines 483-484: k > k + err_threshold or k < k - err_threshold, the test
\* that guards the message of lines 485-489
err_threshold(k) == MulDiv(k.num, Unit, k.den) \div 10
OutsideThreshold(k) ==
    \/ MulDiv(k.num, Unit, k.den) > MulDiv(k.num, Unit, k.den) + err_threshold(k)
    \/ MulDiv(k.num, Unit, k.den) < MulDiv(k.num, Unit, k.den) - err_threshold(k)
AtanMessages(k) ==
    (IF OutsideThreshold(k) THEN {"couldn't find an optimal table size"} ELSE {})
        \cup {"Found optimal value for N"}
AtanBlock(g, N) ==
    IF N.ret = "None" THEN [Raised(g, "UnboundLocalError") EXCEPT !.N = N]
    ELSE AtanBlockDone([g EXCEPT !.N = N, !.out = AtanMessages(g.atan_k)],
                       AtanSz(N.val))

\* TRIGLUTFNDEFS: the __name__ of the function of each member
TRIGLUTFNDEFS ==
    [SIN |-> "sin", COS |-> "cos", TAN |-> "tan",
     ASIN |-> "arcsin", ACOS |-> "arccos", ATAN |-> "arctan"]

\* assess_lut_accuracy (lines 575-629) on a table of lut_len values over an
\* axis of axis_len values: np.min (line 587) refuses an empty axis before
\* the test of line 589; a table of another length gives None
assess_lut_accuracy(lut_len, axis_len) ==
    IF axis_len = 0 THEN [err |-> "ValueError", report |-> "None"]
    ELSE IF lut_len # axis_len THEN [err |-> "none", report |-> "None"]
    ELSE [err |-> "none", report |-> "LUT_ACC_REPORT"]

\* lines 514-564: the table of one function, its assessment and its LUT
LutOf(g, m, domain, acc) ==
    IF acc.err # "none" THEN [err |-> acc.err, lut |-> <<>>]
    ELSE IF m \notin DOMAIN g.hp THEN [err |-> "KeyError", lut |-> <<>>]
    ELSE [err |-> "none",
          lut |-> <<[fn |-> TRIGLUTFNDEFS[m], lut |-> domain,
                     bit_width |-> g.bw_int, lop |-> g.hp[m],
                     table_mode |-> g.table_mode.map[m],
                     scale_factor |-> _calculate_scale_factor(g.table_mode.map[m],
                                                              g.hp[m]),
                     acc_report |-> acc.report]>>]
EvaluateOne(g, m) ==
    LET domain == IF m \in {"SIN", "COS", "TAN"} THEN g.phis ELSE g.xs
    IN  IF m \notin DOMAIN domain THEN [err |-> "KeyError", lut |-> <<>>]
        ELSE LutOf(g, m, domain[m],
                   assess_lut_accuracy(Len(domain[m]), Len(domain[m])))

\* lines 511-564: the loop over the functions in the order of TRIGLUTDEFS
RECURSIVE EvaluateLoop(_, _)
EvaluateNext(g, ms, r) ==
    IF r.err # "none" THEN Raised(g, r.err)
    ELSE EvaluateLoop([g EXCEPT !.luts_to_w = g.luts_to_w \o r.lut], ms)
EvaluateLoop(g, ms) ==
    IF ms = <<>> THEN [g EXCEPT !.pc = "evaluated"]
    ELSE IF ~Selected(g.trig_opts, Head(ms)) THEN EvaluateLoop(g, Tail(ms))
    ELSE EvaluateNext(g, Tail(ms), EvaluateOne(g, Head(ms)))

\* lines 566-572: every table is written, to the file named after its
\* function, width and modes
FileName(lut) == <<lut.fn, lut.bit_width, Lower(lut.table_mode), Lower(lut.lop)>>
WriteLoop(g) ==
    [g EXCEPT !.pc = "written",
              !.files = {[name |-> FileName(g.luts_to_w[i]), lut |-> g.luts_to_w[i]] :
                            i \in DOMAIN g.luts_to_w}]

(***************************************************************************)
(* Inputs of the codec                                                     *)
(***************************************************************************)
MaxHexLen == 4      \* longest raw string handed to hex_to_dtype directly

Patterns == {"zero", "ones", "min", "max", "one", "asc", "lead"}
Pattern(p, n) ==
    [i \in 1..n |->
        CASE p = "zero" -> 0
          [] p = "ones" -> 255
          [] p = "min"  -> IF i = 1 THEN 128 ELSE 0
          [] p = "max"  -> IF i = 1 THEN 127 ELSE 255
          [] p = "one"  -> IF i = n THEN 1 ELSE 0
          [] p = "asc"  -> (17 * i) % 256
          [] p = "lead" -> IF i = 1 THEN 63 ELSE IF i = 2 THEN 128 ELSE 0]

\* widths in bytes of FLOAT_STR_NPMAP and INT_STR_NPMAP (dataclass.py 309-354)
FloatWidths == {2, 4, 8, 16}
IntWidths == {1, 2, 4, 8}

NumpyScalars ==
    {[cls |-> "np.floating", bytes |-> Pattern(p, n)] : p \in Patterns, n \in FloatWidths}
    \cup {[cls |-> "np.integer", bytes |-> Pattern(p, n)] : p \in Patterns, n \in IntWidths}

\* Python ints: 0, 1, 0xbeef, 2^31 - 1, a 65-bit and a 128-bit magnitude
PythonInts ==
    {[cls |-> "int", bytes |-> b] :
        b \in {<<0>>, <<1>>, <<190, 239>>, <<127, 255, 255, 255>>,
               Pattern("one", 8) \o <<0>>, Pattern("ones", 16)}}

CodecScalars == NumpyScalars \cup PythonInts

RECURSIVE StringsUpTo(_, _)
StringsUpTo(alphabet, n) ==
    IF n = 0 THEN {<<>>}
    ELSE LET shorter == StringsUpTo(alphabet, n - 1)
         IN  shorter \cup {Append(s, c) : s \in {t \in shorter : Len(t) = n - 1},
                                          c \in alphabet}

RawAlphabet == {"0", "a", "F", " ", "g"}
NoRaw == [hex |-> <<>>, dtype |-> [cls |-> "none", itemsize |-> 0]]
RawInputs ==
    {[hex |-> h, dtype |-> [cls |-> "np.integer", itemsize |-> n]] :
        h \in StringsUpTo(RawAlphabet, MaxHexLen), n \in {1, 2}}

NoHex == [ok |-> FALSE, hex |-> <<>>, err |-> "unset"]
NoVal == [ok |-> FALSE, val |-> NoScalar, err |-> "unset"]

\* the dtype a caller decodes with: the scalar's own, and for a Python int
\* the numpy type int_to_hex gave it
DecodeDtype(x) ==
    IF IsNumpy(x) THEN DtypeOf(x)
    ELSE [cls |-> "np.integer",
          itemsize |-> IF bit_length(x.bytes) < 31 THEN 4 ELSE 8]

(***************************************************************************)
(* Inputs of the manager: file names, LUTs as the generators build them    *)
(* (generate_trig_luts.py 555-564, generate_downsample_luts.py 110-119)    *)
(* and a list of Python ints written with int_to_hex                       *)
(***************************************************************************)
FileNames ==
    { <<"a">>, <<"a", ".", "h", "e", "x">>, DotHex, <<"a", ".", "t", "x", "t">> }

\* every path a file name of FileNames resolves to
Paths ==
    { IF splitext(n).ext = <<>> THEN n \o DotHex ELSE n :
        n \in {f \in FileNames : splitext(f).ext \in {<<>>, DotHex}} }

\* ' '.join(sys.argv[2:]) of two runs of the trig generator: '--sin', and
\* '-k 1/2 SIN' where SIN is the output directory
CmdSinFlag == <<"-", "-", "s", "i", "n">>
CmdDirSin == <<"-", "k", " ", "1", "/", "2", " ", "S", "I", "N">>

F32a == [cls |-> "np.floating", bytes |-> Pattern("lead", 4)]
F32b == [cls |-> "np.floating", bytes |-> Pattern("asc", 4)]
F16a == [cls |-> "np.floating", bytes |-> Pattern("asc", 2)]
PyOne == [cls |-> "int", bytes |-> <<1>>]
PyWide == [cls |-> "int", bytes |-> Pattern("one", 8) \o <<0>>]

AccReport == VDict(VFloat(<<"avg">>), VFloat(<<"min">>), VFloat(<<"max">>))

\* width in bytes of the entries of a table (np.dtype.itemsize), and the
\* table_sz the generators compute from it
EntryBytes(items) == IF items = <<>> THEN 4 ELSE Len(items[1].bytes)
TableSz(items) == VFloat(<<ToString(EntryBytes(items) * Len(items)), "/1000">>)

\* LUT(...) as the trig generator builds it for SIN in the default modes
TrigLut(items, acc_report, cmd_line_args) ==
    [lut |-> VArray(items), endianness |-> VEnum("BIG"),
     bit_width |-> VInt(8 * EntryBytes(items)), table_sz |-> TableSz(items),
     lop |-> VEnum("LOWP"), scale_factor |-> VInt(4), table_mode |-> VEnum("HIGH"),
     fn |-> VFn("sin"), acc_report |-> acc_report,
     cmd |-> VStr(underline_matches(cmd_line_args, <<"S", "I", "N">>))]

\* LUT(...) as the downsample generator builds it
DownLut(items, cmd_line_args) ==
    [lut |-> VArray(items), endianness |-> VEnum("BIG"),
     bit_width |-> VInt(8 * EntryBytes(items)), table_sz |-> TableSz(items),
     lop |-> VNone, scale_factor |-> VNone, table_mode |-> VNone,
     fn |-> VFn("design_audio_downsample_filter"), acc_report |-> VNone,
     cmd |-> VStr(cmd_line_args)]

\* a table of Python ints, for int_to_hex
IntLut(items) ==
    [lut |-> VArray(items), endianness |-> VEnum("BIG"),
     bit_width |-> VInt(32), table_sz |-> VFloat(<<ToString(4 * Len(items)), "/1000">>),
     lop |-> VNone, scale_factor |-> VNone, table_mode |-> VNone,
     fn |-> VFn("ints"), acc_report |-> VNone, cmd |-> VNone]

TrigLuts ==
    { TrigLut(<<F32a, F32b>>, AccReport, CmdSinFlag),
      TrigLut(<<F32b>>, VNone, CmdDirSin) }
DownLuts == { DownLut(<<F16a>>, CmdSinFlag) }
GeneratorLuts == TrigLuts \cup DownLuts

\* the tables each class of manager is handed
LUTs(class) ==
    CASE class = "TrigLutManager" -> TrigLuts
      [] class = "DownSamplerLutManager" -> DownLuts
      [] OTHER -> { IntLut(<<PyOne, PyWide>>) }

NoLut ==
    [lut |-> VArray(<<>>), endianness |-> VNone, bit_width |-> VNone,
     table_sz |-> VNone, lop |-> VNone, scale_factor |-> VNone,
     table_mode |-> VNone, fn |-> VNone, acc_report |-> VNone, cmd |-> VNone]

\* the ow argument of a call; "omitted" leaves it to the default
OwArgs == {"True", "False", "None", "omitted"}
DefaultOw == "False"
WriteOrders == {"BIG", "LITTLE"}
ReadOrders == {"BIG", "LITTLE"}

\* the dtype each class of manager reads its tables with
ReadDtypes(class) ==
    CASE class = "TrigLutManager" -> {[cls |-> "np.floating", itemsize |-> 4]}
      [] class = "DownSamplerLutManager" -> {[cls |-> "np.floating", itemsize |-> 2]}
      [] OTHER -> {[cls |-> "np.integer", itemsize |-> 4]}

\* the managers' write_lut_to_hex fix write_type; the base class is handed
\* int_to_hex for its table of ints
WriteTypes(class) ==
    IF class = "HexLutManager" THEN {"int_to_hex"} ELSE {"float_to_hex"}

NoDtype == [cls |-> "none", itemsize |-> 0]
NoMgr == [class |-> "none", author_info |-> VNone, fmap |-> InitFmap]
NoFs == [p \in Paths |-> NoFile]
NoCall ==
    [op |-> "none", file_name |-> <<>>, ow |-> "none", target_order |-> "none",
     write_type |-> "none", lut |-> NoLut, dtype |-> NoDtype, err |-> "none",
     path |-> NoPath, data |-> <<>>]

(***************************************************************************)
(* The codec as a state machine: encode a scalar, decode the result; or    *)
(* decode a raw string                                                     *)
(***************************************************************************)
InitCodec ==
    /\ sys_byteorder \in {"little", "big"}
    /\ cpc = "start"
    /\ corder \in BYTEORDER
    /\ \/ cx \in CodecScalars /\ craw = NoRaw
       \/ cx = NoScalar /\ craw \in RawInputs
    /\ chex = NoHex
    /\ cdec = NoVal
    /\ mgr = NoMgr
    /\ fs = NoFs
    /\ last = NoCall
    /\ gen = NoGen
    /\ rcv = NoRcv /\ dsd = NoDsd

Encode ==
    /\ cpc = "start"
    /\ cx # NoScalar
    /\ chex' = IF cx.cls = "np.floating" THEN float_to_hex(cx, corder)
               ELSE int_to_hex(cx, corder)
    /\ cpc' = "encoded"
    /\ UNCHANGED <<sys_byteorder, toolVars, cx, corder, cdec, craw, mgrVars, gen>>

Decode ==
    /\ cpc = "encoded"
    /\ chex.ok
    /\ cdec' = IF cx.cls = "np.floating"
               THEN hex_to_float(chex.hex, DecodeDtype(cx), corder)
               ELSE hex_to_int(chex.hex, DecodeDtype(cx), corder)
    /\ cpc' = "decoded"
    /\ UNCHANGED <<sys_byteorder, toolVars, cx, corder, chex, craw, mgrVars, gen>>

DecodeRaw ==
    /\ cpc = "start"
    /\ craw # NoRaw
    /\ cdec' = hex_to_dtype(craw.hex, craw.dtype, corder)
    /\ cpc' = "raw"
    /\ UNCHANGED <<sys_byteorder, toolVars, cx, corder, chex, craw, mgrVars, gen>>

NextCodec == Encode \/ Decode \/ DecodeRaw

SpecCodec == InitCodec /\ [][NextCodec]_vars

(***************************************************************************)
(* The manager as a state machine: a manager over an empty directory, on   *)
(* which write_lut_to_hex and read_lut_from_hex are called                 *)
(***************************************************************************)
Init ==
    /\ sys_byteorder \in {"little", "big"}
    /\ \E class \in ManagerClasses, author_info \in AuthorInfos :
          mgr = NewManager(class, author_info)
    /\ fs = NoFs
    /\ last = NoCall
    /\ gen = NoGen
    /\ cpc = "idle" /\ cx = NoScalar /\ corder = "BIG"
    /\ chex = NoHex /\ cdec = NoVal /\ craw = NoRaw
    /\ rcv = NoRcv /\ dsd = NoDsd

WriteLut ==
    \E file_name \in FileNames, lut \in LUTs(mgr.class), owArg \in OwArgs,
       target_order \in WriteOrders, write_type \in WriteTypes(mgr.class) :
        \E r \in {write_lut_to_hex(mgr, fs, file_name, lut, write_type,
                                   IF owArg = "omitted" THEN DefaultOw ELSE owArg,
                                   target_order)} :
            /\ mgr' = r.mgr
            /\ fs' = r.fs
            /\ last' = [op |-> "write", file_name |-> file_name, ow |-> owArg,
                        target_order |-> "none", write_type |-> "none",
                        lut |-> lut, dtype |-> NoDtype, err |-> r.err,
                        path |-> r.path, data |-> <<>>]
            /\ UNCHANGED <<sys_byteorder, toolVars, codecVars, gen>>

ReadLut ==
    \E file_name \in FileNames, dtype \in ReadDtypes(mgr.class), target_order \in ReadOrders :
        \E r \in {read_lut_from_hex(fs, file_name, dtype, target_order)} :
            /\ last' = [op |-> "read", file_name |-> file_name, ow |-> "None",
                        target_order |-> target_order, write_type |-> "none",
                        lut |-> NoLut, dtype |-> dtype, err |-> r.err,
                        path |-> r.path, data |-> r.data]
            /\ UNCHANGED <<sys_byteorder, toolVars, mgr, fs, codecVars, gen>>

Next == WriteLut \/ ReadLut

Spec == Init /\ [][Next]_vars

(***************************************************************************)
(* The trig generator as a state machine: main() from the command line to  *)
(* the files written                                                       *)
(***************************************************************************)
Brams == {1, 6, 100, 4096}
BitWidths == {8 * n : n \in FloatWidths}
TableModeArgs ==
    {ArgEnum("HIGH"), ArgList(<<>>)} \cup {ArgList(<<m>>) : m \in DOMAIN TRIGFOLD}
HpArgs ==
    {ArgEnum("LOWP"), ArgList(<<"HIGHP">>), ArgList(<<"MEDP">>), ArgList(<<"SIN">>),
     ArgList(<<"SIN", "HIGHP", "COS", "MEDP">>),
     ArgList(<<"SIN", "HIGHP", "COS", "MEDP", "ASIN">>),
     ArgList(<<"ASIN", "MEDP", "ACOS", "HIGHP", "SIN", "LOWP", "COS", "LOWP">>)}

\* -k (absent, 1/2 or 3/2) and --auto-off
Ks ==
    {[k |-> NoThreshold, auto_off |-> FALSE], [k |-> NoThreshold, auto_off |-> TRUE],
     [k |-> Threshold(1, 2), auto_off |-> FALSE],
     [k |-> Threshold(3, 2), auto_off |-> FALSE]}
\* -tan-k and -atan-k: the defaults 0.05 and 0.1, or a value given
TanKs == {Default(1, 20), Threshold(1, 10), Threshold(1, 2), Threshold(0, 1)}
AtanKs ==
    {Default(1, 10), Threshold(1, 20), Threshold(1, 5), Threshold(8, 65),
     Threshold(1, 2), Threshold(47, 100), Threshold(2, 1)}

\* the functions asked for, with the thresholds of TAN and ATAN
Selections ==
    {[flags |-> f, all |-> FALSE, tan_k |-> Default(1, 20), atan_k |-> Default(1, 10)] :
        f \in {{}, {"SIN"}, {"ASIN"}, {"COS", "ACOS"}, {"SIN", "TAN"},
               {"SIN", "COS", "ASIN", "ACOS"}}}
    \cup {[flags |-> f, all |-> TRUE, tan_k |-> Default(1, 20), atan_k |-> Default(1, 10)] :
            f \in {{}, {"COS"}}}
    \cup {[flags |-> {"TAN"}, all |-> FALSE, tan_k |-> t, atan_k |-> Default(1, 10)] :
            t \in TanKs}
    \cup {[flags |-> {"ATAN"}, all |-> FALSE, tan_k |-> Default(1, 20), atan_k |-> t] :
            t \in AtanKs}
    \cup {[flags |-> {"SIN", "ATAN"}, all |-> FALSE, tan_k |-> Default(1, 20),
           atan_k |-> t] : t \in {Default(1, 10), Threshold(8, 65)}}

InitSize ==
    /\ sys_byteorder = "little"
    /\ \E bram \in Brams, bw_int \in BitWidths, table_mode \in TableModeArgs,
          hp \in HpArgs, sel \in Selections, k \in Ks :
            gen = [NoGen EXCEPT !.pc = "argv", !.bram = bram, !.bw_int = bw_int,
                                !.table_mode = table_mode, !.hp = hp,
                                !.argv = [table_mode |-> table_mode, hp |-> hp],
                                !.flags = sel.flags, !.all = sel.all,
                                !.tan_k = sel.tan_k,
                                !.atan_k = sel.atan_k, !.k = k.k,
                                !.auto_off = k.auto_off]
    /\ mgr = NoMgr /\ fs = NoFs /\ last = NoCall
    /\ cpc = "idle" /\ cx = NoScalar /\ corder = "BIG"
    /\ chex = NoHex /\ cdec = NoVal /\ craw = NoRaw
    /\ rcv = NoRcv /\ dsd = NoDsd

Raise(e) == gen' = Raised(gen, e)

\* line 190: parse_args applies kthresh to the thresholds given, and exits
\* when one is refused
ParseArgs ==
    /\ gen.pc = "argv"
    /\ IF \E v \in {gen.k, gen.tan_k, gen.atan_k} : v.given /\ kthresh(v) # "none"
       THEN Raise("SystemExit")
       ELSE gen' = [gen EXCEPT !.pc = "parsed"]
    /\ UNCHANGED <<sys_byteorder, toolVars, codecVars, mgrVars>>

\* lines 202-215: the number of entries the budget holds, and the functions
\* to generate
TableEntries ==
    /\ gen.pc = "parsed"
    /\ LET bw_int_bytes == gen.bw_int \div 8
       IN  IF gen.bram < bw_int_bytes THEN Raise("ArgumentTypeError")
           ELSE gen' = [gen EXCEPT !.pc = "sized",
                                   !.N_TABLE_ENTRIES = gen.bram \div bw_int_bytes,
                                   !.trig_opts = trig_opts_of(gen.flags, gen.all)]
    /\ UNCHANGED <<sys_byteorder, toolVars, codecVars, mgrVars>>

\* lines 217-264: the defaults of -table_mode and -hp
ModeDefaults ==
    /\ gen.pc = "sized"
    /\ LET hp == hp_dict(gen.hp)
       IN  IF hp.err # "none" THEN Raise(hp.err)
           ELSE gen' = [gen EXCEPT !.pc = "moded",
                                   !.table_mode = table_mode_dict(gen.table_mode),
                                   !.hp = hp.map]
    /\ UNCHANGED <<sys_byteorder, toolVars, codecVars, mgrVars>>

\* lines 284-321: with -auto and -excl-auto left at their defaults every
\* function is in auto mode unless --auto-off, and then k must be given
AutoChecks ==
    /\ gen.pc = "moded"
    /\ IF ~gen.auto_off /\ ~gen.k.given THEN Raise("ArgumentError")
       ELSE gen' = [gen EXCEPT !.pc = "checked"]
    /\ UNCHANGED <<sys_byteorder, toolVars, codecVars, mgrVars>>

\* lines 326-358: the domains of SIN and COS
Sinusoids ==
    /\ gen.pc = "checked"
    /\ gen' = SinusoidBlock(gen)
    /\ UNCHANGED <<sys_byteorder, toolVars, codecVars, mgrVars>>

\* lines 360-402: the domain of TAN
Tan ==
    /\ gen.pc = "sinusoids"
    /\ gen' = TanBlock(gen)
    /\ UNCHANGED <<sys_byteorder, toolVars, codecVars, mgrVars>>

\* lines 404-426: the domains of ASIN and ACOS
ArcSinusoids ==
    /\ gen.pc = "tan"
    /\ gen' = ArcSinusoidBlock(gen)
    /\ UNCHANGED <<sys_byteorder, toolVars, codecVars, mgrVars>>

\* lines 428-480: the fold mode of ATAN and the call of newton_raphson_N
Atan ==
    /\ gen.pc = "arc_sinusoids"
    /\ gen' = AtanFold(gen)
    /\ UNCHANGED <<sys_byteorder, toolVars, codecVars, mgrVars>>

\* lines 451-475: one pass of the loop of newton_raphson_N, or its end;
\* when it returns, lines 481-509 give the domain of ATAN
newton_raphson_N ==
    /\ gen.pc = "newton"
    /\ \E r \in {NewtonPass(gen.N_current, gen.iter, gen.atan_k)} :
        gen' = IF r.N.ret = "unset"
               THEN [gen EXCEPT !.N_current = r.N_current, !.iter = r.iter]
               ELSE AtanBlock([gen EXCEPT !.N_current = r.N_current, !.iter = r.iter],
                              r.N)
    /\ UNCHANGED <<sys_byteorder, toolVars, codecVars, mgrVars>>

\* lines 511-564: the tables, their assessments and their LUTs
Evaluate ==
    /\ gen.pc = "atan"
    /\ gen' = EvaluateLoop(gen, TRIGLUTDEFS)
    /\ UNCHANGED <<sys_byteorder, toolVars, codecVars, mgrVars>>

\* lines 566-572: the files
WriteLuts ==
    /\ gen.pc = "evaluated"
    /\ gen' = WriteLoop(gen)
    /\ UNCHANGED <<sys_byteorder, toolVars, codecVars, mgrVars>>

NextSize ==
    \/ ParseArgs \/ TableEntries \/ ModeDefaults \/ AutoChecks \/ Sinusoids \/ Tan
    \/ ArcSinusoids \/ Atan \/ newton_raphson_N \/ Evaluate \/ WriteLuts

SpecSize == InitSize /\ [][NextSize]_vars

(***************************************************************************)
(* The runs of the trig generator that size ATAN alone, for the solver:    *)
(* main() is sequential and always goes on to its next statement           *)
(***************************************************************************)
InitSolver ==
    /\ sys_byteorder = "little"
    /\ \E bram \in Brams, atan_k \in AtanKs, k \in Ks :
            gen = [NoGen EXCEPT !.pc = "argv", !.bram = bram, !.bw_int = 32,
                                !.flags = {"ATAN"}, !.tan_k = Default(1, 20),
                                !.atan_k = atan_k, !.k = k.k,
                                !.auto_off = k.auto_off]
    /\ mgr = NoMgr /\ fs = NoFs /\ last = NoCall
    /\ cpc = "idle" /\ cx = NoScalar /\ corder = "BIG"
    /\ chex = NoHex /\ cdec = NoVal /\ craw = NoRaw
    /\ rcv = NoRcv /\ dsd = NoDsd

\* every statement of main() is executed once control reaches it; for a pass
\* of the solver, which is enabled exactly while gen.pc = "newton", weak
\* fairness is written out: the pass is disabled or taken infinitely often
Sequential ==
    /\ WF_vars(ParseArgs) /\ WF_vars(TableEntries) /\ WF_vars(ModeDefaults)
    /\ WF_vars(AutoChecks) /\ WF_vars(Sinusoids) /\ WF_vars(Tan)
    /\ WF_vars(ArcSinusoids) /\ WF_vars(Atan)
    /\ WF_vars(Evaluate) /\ WF_vars(WriteLuts)
    /\ ([]<>(gen.pc # "newton") \/ []<><<newton_raphson_N>>_vars)

SpecSolver == InitSolver /\ [][NextSize]_vars /\ Sequential

(***************************************************************************)
(* The assessment of a SIN table and the recovery test                     *)
(***************************************************************************)
HalfPi == pi \div 2
TwoPi == 2 * pi

\* np.sin on [0, 2 pi]: x - x^3 / 3! + x^5 / 5! - ... on [0, pi / 2], and
\* the symmetries of the sine beyond
RECURSIVE SinSeries(_, _, _)
SinSeries(term, x2, n) ==
    IF term = 0 THEN 0
    ELSE term - SinSeries(MulDiv(term, x2, Unit) \div (n * (n + 1)), x2, n + 2)
SinQuarter(x) == SinSeries(x, MulDiv(x, x, Unit), 2)
np_sin(x) ==
    IF x <= HalfPi THEN SinQuarter(x)
    ELSE IF x <= pi THEN SinQuarter(pi - x)
    ELSE IF x <= pi + HalfPi THEN -SinQuarter(x - pi)
    ELSE -SinQuarter(Max(TwoPi - x, 0))

\* element j (from 0) of np.linspace(start, stop, num), num >= 2
np_linspace_at(start, stop, num, j) ==
    IF j = num - 1 THEN stop ELSE start + MulDiv(stop - start, j, num - 1)

np_min(arr) == CHOOSE v \in Range(arr) : \A w \in Range(arr) : v <= w
np_max(arr) == CHOOSE v \in Range(arr) : \A w \in Range(arr) : v >= w
RECURSIVE np_sum(_)
np_sum(arr) == IF arr = <<>> THEN 0 ELSE Head(arr) + np_sum(Tail(arr))

np_clip(v, lo, hi) == IF v < lo THEN lo ELSE IF v > hi THEN hi ELSE v

\* indices of the reference points that are taken as they are
fn_eval_indices_unscaled(l_axis, oversample_factor) ==
    [i \in 1..l_axis |-> i - 1]

\* assess_lut_accuracy, lines 598-609: the indices into the reference axis
\* (lines 605-607) and the reference points they select
fn_eval_indices(l_axis, oversample_factor) ==
    [i \in 1..l_axis |->
        np_clip((i - 1) * oversample_factor, 0, oversample_factor * l_axis - 1)]
fn_eval_points(axis_arr, oversample_factor) ==
    IF Len(axis_arr) = 1 THEN <<axis_arr[1]>>
    ELSE [i \in 1..Len(axis_arr) |->
            np_linspace_at(np_min(axis_arr), np_max(axis_arr),
                           oversample_factor * Len(axis_arr),
                           fn_eval_indices(Len(axis_arr), oversample_factor)[i])]

\* lines 611-621: the scores and their report, for fn = np.sin
acc_scores(lut_arr, axis_arr, oversample_factor) ==
    [i \in 1..Len(lut_arr) |->
        Abs(lut_arr[i] - np_sin(fn_eval_points(axis_arr, oversample_factor)[i]))]
LUT_ACC_REPORT(scores) ==
    [avg_acc |-> np_sum(scores) \div Len(scores), min_acc |-> np_min(scores),
     max_acc |-> np_max(scores), acc_scores |-> scores]

\* lines 357-358 and 537: the domain of SIN in units, and its table
SinusoidAxis(sz, N_TABLE_ENTRIES) ==
    [i \in 1..sz |-> MulDiv(pi, SinusoidPhi(i - 1, N_TABLE_ENTRIES).num,
                             SinusoidPhi(i - 1, N_TABLE_ENTRIES).den)]
SinLut(axis) == [i \in 1..Len(axis) |-> np_sin(axis[i])]

\* round(): to the nearest whole number, a tie to the even one
round(num, den) ==
    LET down == num \div den
    IN  IF 2 * (num % den) > den THEN down + 1
        ELSE IF 2 * (num % den) < den THEN down
        ELSE IF down % 2 = 0 THEN down ELSE down + 1

\* ReconstructSin.quantize and reconstruct_high (lines 70-82 of the
\* recovery test); self.domain holds the table
quantize(domain, theta) == domain[round(theta * (Len(domain) - 1), HalfPi) + 1]
reconstruct_high(domain, angle) ==
    LET theta == angle % TwoPi
    IN  IF theta < HalfPi THEN quantize(domain, theta)
        ELSE IF theta < pi THEN quantize(domain, pi - theta)
        ELSE IF theta < pi + HalfPi THEN -quantize(domain, theta - pi)
        ELSE -quantize(domain, TwoPi - theta)

\* the budgets (in entries) and oversample factors of the runs
TableBudgets == {8, 16, 64}
OversampleFactors == {1, 2, 128}

InitRecover ==
    /\ sys_byteorder = "little"
    /\ \E N_TABLE_ENTRIES \in TableBudgets, osf \in OversampleFactors :
            rcv = [pc |-> "start", N_TABLE_ENTRIES |-> N_TABLE_ENTRIES, osf |-> osf,
                   axis |-> <<>>, lut |-> <<>>, acc_report |-> "None",
                   i |-> 0, theta |-> 0, reconstructed |-> 0]
    /\ dsd = NoDsd /\ gen = NoGen
    /\ mgr = NoMgr /\ fs = NoFs /\ last = NoCall
    /\ cpc = "idle" /\ cx = NoScalar /\ corder = "BIG"
    /\ chex = NoHex /\ cdec = NoVal /\ craw = NoRaw

\* generate_trig_luts, lines 344-358 and 536-537: SIN in HIGH fold and LOWP
GenerateSin ==
    /\ rcv.pc = "start"
    /\ \E axis \in {SinusoidAxis(rcv.N_TABLE_ENTRIES \div
                                    _calculate_scale_factor("HIGH", "LOWP"),
                                  rcv.N_TABLE_ENTRIES)} :
            rcv' = [rcv EXCEPT !.pc = "generated", !.axis = axis, !.lut = SinLut(axis)]
    /\ UNCHANGED <<sys_byteorder, codecVars, mgrVars, gen, dsd>>

\* generate_trig_luts, lines 539-542: the call of assess_lut_accuracy
AssessSin ==
    /\ rcv.pc = "generated"
    /\ \E scores \in {acc_scores(rcv.lut, rcv.axis, rcv.osf)} :
            rcv' = [rcv EXCEPT !.pc = "assessed", !.acc_report = LUT_ACC_REPORT(scores)]
    /\ UNCHANGED <<sys_byteorder, codecVars, mgrVars, gen, dsd>>

\* test_reconstruct_sin_high_32 (lines 152 and 166): the next angle of
\* np.linspace(0, 2 pi, 4 size) is reconstructed
ReconstructNext ==
    /\ rcv.pc \in {"assessed", "recovering"}
    /\ rcv.i < 4 * Len(rcv.lut)
    /\ \E theta \in {np_linspace_at(0, TwoPi, 4 * Len(rcv.lut), rcv.i)} :
            rcv' = [rcv EXCEPT !.pc = "recovering", !.i = rcv.i + 1, !.theta = theta,
                               !.reconstructed = reconstruct_high(rcv.lut, theta)]
    /\ UNCHANGED <<sys_byteorder, codecVars, mgrVars, gen, dsd>>

NextRecover == GenerateSin \/ AssessSin \/ ReconstructNext

SpecRecover == InitRecover /\ [][NextRecover]_vars

(***************************************************************************)
(* The downsample generator as a state machine: main() of                  *)
(* Scripts/generate_downsample_luts.py from the command line to the files  *)
(***************************************************************************)
SAMPLE_RATE == 96
COMMON_RATES == <<44100, 32000, 24000, 16000, 8000>>
KHZ == 1000

\* str2freq of a whole number of kHz (argparse_helpers.py 337-350)
str2freq(val) == val * KHZ

\* pad_lists_to_same_length (helpers.py 156-185)
PadWithLast(list, n) == list \o Repeat(list[Len(list)], n - Len(list))
pad_lists_to_same_length(list1, list2) ==
    IF list1 = <<>> \/ list2 = <<>> THEN [err |-> "ValueError", l1 |-> list1, l2 |-> list2]
    ELSE [err |-> "none", l1 |-> PadWithLast(list1, Max(Len(list1), Len(list2))),
          l2 |-> PadWithLast(list2, Max(Len(list1), Len(list2)))]

\* 2.285 * pi of lines 219 and 227
KaiserSlope == MulDiv(2285, pi, 1000)

\* kaiser_design_parameters, lines 225-233: the window length for the
\* attenuation As (dB) and the transition width tw (a fraction of Nyquist)
window_length(As, tw) ==
    LET N == Ceil(MulDivRem(As - 8, Unit, MulDiv(KaiserSlope, tw.num, tw.den)))
    IN  IF N % 2 = 0 THEN N + 1 ELSE N

RECURSIVE GCD(_, _)
GCD(a, b) == IF b = 0 THEN a ELSE GCD(b, a % b)

\* design_kaiser_filter, lines 288 and 299-307: the cutoff of a low pass
\* for the ratio fs_out / fs_in, as a fraction in lowest terms; ValueError
\* from 1.0 on
cutoff_norm(fs_in, fs_out) ==
    LET q == IF fs_out <= fs_in
             THEN [num |-> fs_out, den |-> fs_in]
             ELSE [num |-> fs_out * 100, den |-> fs_in * 45 * SAMPLE_RATE]
    IN  [ok |-> q.num < q.den, num |-> q.num \div GCD(q.num, q.den),
         den |-> q.den \div GCD(q.num, q.den)]

\* signal.firwin(N, cutoff, window=('kaiser', beta)): a linear-phase low
\* pass; tap i depends on the design and on its distance from the middle
\* of the window only (twice the distance is kept, a whole number)
firwin(N, cutoff, As) ==
    [i \in 1..N |-> [cutoff |-> cutoff, at |-> As, off |-> Abs(2 * i - (N + 1))]]

\* lines 167-168: h[:h.size // 2]
HalfWindow(h) == SubSeq(h, 1, Len(h) \div 2)

\* lines 182-183: f'dsd_coeff_{lut.bit_width}'
DsdFileName(bit_width, index) == <<"dsd_coeff_", bit_width>>

\* the command lines of the runs: -fin and -fout in kHz (None: not given),
\* --common, -at and -tw
NotGiven == [given |-> FALSE, list |-> <<>>]
Given(list) == [given |-> TRUE, list |-> list]
FinArgs == {NotGiven, Given(<<>>), Given(<<96>>), Given(<<96, 48>>)}
FoutArgs == {NotGiven, Given(<<48>>), Given(<<48, 24>>), Given(<<96>>)}
AtArgs == {20, 40, 80}
TwArgs == {[num |-> 1, den |-> 100], [num |-> 1, den |-> 10], [num |-> 1, den |-> 2]}
Freqs(arg, default) ==
    IF ~arg.given THEN default ELSE [i \in 1..Len(arg.list) |-> str2freq(arg.list[i])]

InitDownsample ==
    /\ sys_byteorder = "little"
    /\ \E fin \in FinArgs, fout \in FoutArgs, common \in BOOLEAN,
          at \in AtArgs, tw \in TwArgs :
            dsd = [pc |-> "start", fin |-> Freqs(fin, <<SAMPLE_RATE>>),
                   fout |-> Freqs(fout, <<>>), fout_given |-> fout.given,
                   common |-> common,
                   at |-> at, tw |-> tw, bit_width |-> 32, i |-> 0, w |-> 0,
                   luts_to_w |-> <<>>, files |-> {}, err |-> "none"]
    /\ rcv = NoRcv /\ gen = NoGen
    /\ mgr = NoMgr /\ fs = NoFs /\ last = NoCall
    /\ cpc = "idle" /\ cx = NoScalar /\ corder = "BIG"
    /\ chex = NoHex /\ cdec = NoVal /\ craw = NoRaw

\* lines 123-145: --common against -fout, the default of -fout, and the
\* matching of the two lists
MatchRates ==
    /\ dsd.pc = "start"
    /\ IF dsd.fout_given /\ dsd.common
       THEN dsd' = [dsd EXCEPT !.pc = "raised", !.err = "ArgumentError"]
       ELSE \E fout \in {IF dsd.common THEN COMMON_RATES
                          ELSE IF dsd.fout = <<>>
                               THEN [a \in 1..Len(dsd.fin) |-> dsd.fin[a] \div 2]
                               ELSE dsd.fout} :
                IF Len(dsd.fin) > Len(fout)
                THEN dsd' = [dsd EXCEPT !.pc = "raised", !.err = "ArgumentError",
                                        !.fout = fout]
                ELSE \E padded \in {pad_lists_to_same_length(dsd.fin, fout)} :
                        dsd' = [dsd EXCEPT
                                   !.pc = IF padded.err = "none" THEN "matched" ELSE "raised",
                                   !.err = padded.err,
                                   !.fin = padded.l1, !.fout = padded.l2]
    /\ UNCHANGED <<sys_byteorder, codecVars, mgrVars, gen, rcv>>

\* lines 149-178: one pass of the design loop
DesignFilter ==
    /\ dsd.pc = "matched"
    /\ dsd.i < Len(dsd.fin)
    /\ \E c \in {cutoff_norm(dsd.fin[dsd.i + 1], dsd.fout[dsd.i + 1])} :
          IF ~c.ok
          THEN dsd' = [dsd EXCEPT !.pc = "raised", !.err = "ValueError"]
          ELSE \E h \in {firwin(window_length(dsd.at, dsd.tw), c, dsd.at)} :
                  dsd' = [dsd EXCEPT
                             !.i = dsd.i + 1,
                             !.luts_to_w = Append(@, [lut |-> HalfWindow(h), coeffs |-> h,
                                                      bit_width |-> dsd.bit_width])]
    /\ UNCHANGED <<sys_byteorder, codecVars, mgrVars, gen, rcv>>

\* lines 180-185: one pass of the write loop; ow=True replaces a file of the
\* same name
WriteCoeffs ==
    /\ dsd.pc = "matched"
    /\ dsd.i = Len(dsd.fin)
    /\ dsd.w < Len(dsd.luts_to_w)
    /\ \E fn \in {DsdFileName(dsd.luts_to_w[dsd.w + 1].bit_width, dsd.w)} :
          dsd' = [dsd EXCEPT
                     !.w = dsd.w + 1,
                     !.files = {f \in @ : f.name # fn}
                                 \cup {[name |-> fn, lut |-> dsd.luts_to_w[dsd.w + 1].lut]}]
    /\ UNCHANGED <<sys_byteorder, codecVars, mgrVars, gen, rcv>>

\* main returns
DsdReturn ==
    /\ dsd.pc = "matched"
    /\ dsd.i = Len(dsd.fin)
    /\ dsd.w = Len(dsd.luts_to_w)
    /\ dsd' = [dsd EXCEPT !.pc = "done"]
    /\ UNCHANGED <<sys_byteorder, codecVars, mgrVars, gen, rcv>>

NextDownsample == MatchRates \/ DesignFilter \/ WriteCoeffs \/ DsdReturn

SpecDownsample == InitDownsample /\ [][NextDownsample]_vars

(***************************************************************************)
(* Claims about the codec                                                  *)
(***************************************************************************)

\* C1: decoding the hex string produced by encoding a numpy scalar x, with
\* x's dtype and the same byte order, succeeds and returns x bit for bit
\* (float_to_hex / hex_to_dtype and int_to_hex / hex_to_int).
C1_RoundTrip ==
    (cpc = "decoded" /\ IsNumpy(cx)) => (cdec.ok /\ cdec.val = cx)

\* C2: for every numpy scalar, encoding with BIG gives the bytes most
\* significant first, encoding with LITTLE gives their exact reversal, and
\* NATIVE gives the bytes of the machine's own order, whether or not the
\* scalar's storage order equals the target order.
C2_ByteOrder ==
    (cpc = "encoded" /\ cx.cls = "np.floating") =>
        LET big == float_to_hex(cx, "BIG")
            little == float_to_hex(cx, "LITTLE")
            native == float_to_hex(cx, "NATIVE")
        IN  /\ chex = float_to_hex(cx, corder)
            /\ big.ok /\ little.ok /\ native.ok
            /\ big.hex = BytesToHex(cx.bytes)
            /\ little.hex = BytesToHex(Reverse(cx.bytes))
            /\ native.hex = IF sys_byteorder = "little" THEN little.hex ELSE big.hex

\* C9: hex_to_dtype raises and returns no value whenever the length of the
\* hex string differs from 2 x itemsize(dtype); a string of hex digits of
\* the wrong length, and every odd-length string, is refused by the length
\* validation itself (ValueError), never cut or padded to the dtype's size.
C9_LengthMismatchRaises ==
    (cpc = "raw" /\ Len(craw.hex) # 2 * itemsize(craw.dtype)) =>
        /\ ~cdec.ok
        /\ cdec.val = NoScalar
        /\ (Len(craw.hex) % 2 # 0 \/ \A i \in DOMAIN craw.hex : IsHexChar(craw.hex[i]))
              => cdec.err = "ValueError"

\* C9 witness: an even-length string of hex digits, longer than the dtype,
\* has been handed to hex_to_dtype
C9_Witness ==
    /\ cpc = "raw"
    /\ craw.hex = <<"0", "a", "F", "0">>
    /\ itemsize(craw.dtype) = 1
    /\ cdec.err = "ValueError"

(***************************************************************************)
(* Claims about the manager's files                                        *)
(***************************************************************************)
\* the lines of a file after the header, stripped, and the header's lines
ValueLines(f) ==
    LET ls == Lines(f.text)
    IN  [i \in 1..(Len(ls) - f.wrote.header_lines) |-> strip(ls[f.wrote.header_lines + i])]
HeaderLines(f) ==
    LET ls == Lines(f.text)
    IN  [i \in 1..f.wrote.header_lines |-> ls[i]]

\* a file holds its header and a line for every value of the table
Complete(f) == f.exists /\ f.wrote.written = Len(f.wrote.lut)

GeneratorManagers == {"TrigLutManager", "DownSamplerLutManager"}

\* C3: after write_lut_to_hex has written a LUT of n values with byte order
\* o, read_lut_from_hex on the same name with the values' dtype and the same
\* order o returns exactly the n written values, in order.
C3_WriteThenRead ==
    (/\ last.op = "read"
     /\ last.path # NoPath
     /\ Complete(fs[last.path])
     /\ last.target_order = fs[last.path].wrote.target_order
     /\ \A i \in DOMAIN fs[last.path].wrote.lut :
           /\ fs[last.path].wrote.lut[i].cls = last.dtype.cls
           /\ Len(fs[last.path].wrote.lut[i].bytes) = last.dtype.itemsize)
    => (last.err = "none" /\ last.data = fs[last.path].wrote.lut)

\* C4: every line of the header write_lut_to_hex writes for a generator's
\* LUT is blank or begins with '//', so that read_lut_from_hex skips the
\* whole header and hands exactly the value lines to the decoder.
C4_HeaderLinesAreComments ==
    \A p \in Paths :
        (fs[p].exists /\ mgr.class \in GeneratorManagers) =>
            /\ \A i \in 1..fs[p].wrote.header_lines :
                  \/ HeaderLines(fs[p])[i] \in {<<"\n">>, <<>>}
                  \/ startswith_slashes(HeaderLines(fs[p])[i])
            /\ Len(dropwhile_header(Lines(fs[p].text))) = fs[p].wrote.written

\* C5: a file is never left holding the header with none or only some of
\* the table's value lines: after a write that failed the file is as it was
\* before the call or complete.
C5_FailedWriteAtomic ==
    \A p \in Paths : fs[p].exists => Complete(fs[p])

\* C6: with ow=False a write to an existing path raises FileExistsError and
\* leaves every file as it was; with ow=True the write proceeds and the file
\* holds the new table; with ow=None existence is not checked and the write
\* proceeds; a call that gives no ow behaves as ow=False.
C6_OverwritePolicy ==
    [][(last'.op = "write" /\ last'.path # NoPath) =>
        LET p == last'.path
            proceeds == /\ last'.err # "FileExistsError"
                        /\ fs'[p].exists
                        /\ fs'[p].wrote.lut = last'.lut.lut.items
                        /\ \A q \in Paths \ {p} : fs'[q] = fs[q]
            refused == last'.err = "FileExistsError" /\ fs' = fs
        IN  /\ (last'.ow \in {"False", "omitted"} /\ fs[p].exists) => refused
            /\ (last'.ow \in {"False", "omitted"} /\ ~fs[p].exists) => proceeds
            /\ last'.ow \in {"True", "None"} => proceeds
    ]_vars

\* C6 witness: a write with no ow given has been refused on an existing file
C6_Witness ==
    /\ last.op = "write"
    /\ last.ow = "omitted"
    /\ last.err = "FileExistsError"
    /\ fs[last.path].exists

EndsWith(s, suffix) ==
    Len(s) >= Len(suffix) /\ SubSeq(s, Len(s) - Len(suffix) + 1, Len(s)) = suffix

\* C7 as stated: a name without a dot gets '.hex' appended, a name ending in
\* '.hex' is kept unchanged, any other name raises, and then no file is
\* touched.
C7_AsStated ==
    [][last'.op \in {"write", "read"} =>
        LET n == last'.file_name
        IN  /\ "." \notin Range(n) => last'.path = n \o DotHex
            /\ EndsWith(n, DotHex) => last'.path = n
            /\ ("." \in Range(n) /\ ~EndsWith(n, DotHex)) =>
                  (last'.err = "ValueError" /\ last'.path = NoPath /\ fs' = fs)
    ]_vars

\* C7 (amended): path resolution appends '.hex' to a name whose
\* os.path.splitext extension is empty (a name such as '.hex', whose only
\* dot leads it, included), keeps a name whose extension is '.hex'
\* unchanged, and raises ValueError for any other extension; in the error
\* case no file is created, truncated or read.
C7_PathResolution ==
    [][last'.op \in {"write", "read"} =>
        LET n == last'.file_name
            ext == splitext(n).ext
        IN  /\ ext = <<>> => last'.path = n \o DotHex
            /\ ext = DotHex => last'.path = n
            /\ ext \notin {<<>>, DotHex} =>
                  /\ last'.err = "ValueError" /\ last'.path = NoPath
                  /\ fs' = fs
                  /\ last'.data = <<>>
    ]_vars

\* C7 witness: a table has been written under the name '.hex', whose
\* extension is empty, and is in the file '.hex.hex'
C7_Witness ==
    /\ last.op = "write"
    /\ last.file_name = DotHex
    /\ last.path = DotHex \o DotHex
    /\ fs[last.path].exists

\* C8: a file written for a generator's LUT holds, after the header, one line
\* per table value in table order, each of exactly 2 x (bit_width / 8)
\* lowercase hexadecimal characters.
C8_ValueLineWidth ==
    \A p \in Paths :
        (fs[p].exists /\ mgr.class \in GeneratorManagers) =>
            LET vs == ValueLines(fs[p])
                w == fs[p].wrote
            IN  /\ Len(vs) = Len(w.lut)
                /\ \A i \in DOMAIN vs :
                      /\ Len(vs[i]) = 2 * (w.bit_width \div 8)
                      /\ \A j \in DOMAIN vs[i] : vs[i][j] \in Range(HexDigits)
                      /\ vs[i] \in {BytesToHex(w.lut[i].bytes),
                                    BytesToHex(Reverse(w.lut[i].bytes))}

(***************************************************************************)
(* Claims about the generator's table sizes                                *)
(***************************************************************************)
\* the fold mode asked for: the default when -table_mode is absent or
\* empty, else the value given
RequestedFold(table_mode) ==
    IF table_mode.ty \in {"dict", "enum"} \/ table_mode.items = <<>> THEN "HIGH"
    ELSE table_mode.items[1]

\* the sizing block of a function's group has been run
Positions ==
    <<"argv", "parsed", "sized", "moded", "checked", "sinusoids", "tan",
      "arc_sinusoids", "newton", "atan", "evaluated", "written">>
\* the run has got past position pc, or raised from it or from a later one
Past(pc) ==
    IF gen.pc = "raised" THEN IndexOf(Positions, gen.at) >= IndexOf(Positions, pc)
    ELSE gen.pc \in Range(Positions) /\ IndexOf(Positions, gen.pc) > IndexOf(Positions, pc)
Sized(k) == IF k \in _SINUSOIDS THEN Past("checked") ELSE Past("tan")

\* C10: for SIN, COS, ASIN and ACOS, for every budget, width, fold mode in
\* {FULL (LOW), QUARTER (HIGH)} and precision mode, the table (its domain)
\* has N div S entries with N = bram div (bw / 8) and
\* S = max(fold.value * (HIGHP.value - precision.value), 1); 4096 bytes of
\* 32-bit values in quarter fold at HIGHP give 1024 entries.
C10_TableLength ==
    \A k \in _SINUSOIDS \cup _ARC_SINUSOIDS :
        LET domains == IF k \in _SINUSOIDS THEN gen.phis ELSE gen.xs
            fold == RequestedFold(gen.table_mode)
            N == gen.bram \div (gen.bw_int \div 8)
            S == Max(TRIGFOLD[fold] * (2 - TRIGPREC[gen.hp[k]]), 1)
        IN  (/\ Sized(k)
             /\ Selected(gen.trig_opts, k)
             /\ fold \in {"LOW", "HIGH"}
             /\ k \in DOMAIN gen.hp) =>
                /\ k \in DOMAIN domains
                /\ Len(domains[k]) = N \div S
                /\ (gen.bram = 4096 /\ gen.bw_int = 32 /\ fold = "HIGH"
                    /\ gen.hp[k] = "HIGHP") => Len(domains[k]) = 1024

\* C11: every abscissa of the sample domain of SIN and COS lies in
\* [0, pi/2) in QUARTER (HIGH) fold and in [0, 2 pi) in FULL (LOW) fold, for
\* every budget and precision mode.
C11_SinusoidDomainRange ==
    \A k \in _SINUSOIDS :
        (k \in DOMAIN gen.phis /\ gen.table_mode.ty = "dict") =>
            \A i \in DOMAIN gen.phis[k] :
                LET phi == SinusoidPhi(gen.phis[k][i], gen.N_TABLE_ENTRIES)
                IN  /\ phi.num >= 0
                    /\ gen.table_mode.map[k] = "HIGH" => 2 * phi.num < phi.den
                    /\ gen.table_mode.map[k] = "LOW" => phi.num < 2 * phi.den
\* the block of main() that builds the domain of k has acted
Reached(k) ==
    CASE k \in _SINUSOIDS -> Past("checked")
      [] k = "TAN" -> Past("sinusoids")
      [] k \in _ARC_SINUSOIDS -> Past("tan")
      [] OTHER -> Past("arc_sinusoids")
DomainsOf(k) == IF k \in {"SIN", "COS", "TAN"} THEN gen.phis ELSE gen.xs

\* C12: when HALF (MED) fold is requested, the block of every selected
\* function raises NotImplementedError, which ends the run, and no domain,
\* table or file is produced for the function.
C12_HalfNotSupported ==
    \A k \in Range(TRIGLUTDEFS) :
        (/\ RequestedFold(gen.argv.table_mode) = "MED"
         /\ Selected(gen.trig_opts, k) /\ Reached(k)) =>
            /\ gen.pc = "raised" /\ gen.err = "NotImplementedError"
            /\ k \notin DOMAIN DomainsOf(k)
            /\ gen.luts_to_w = <<>> /\ gen.files = {}
\* a threshold outside (0, 1); -hp pairs of odd length, with a duplicated
\* function or with a pair out of order
OutOfRange(v) == v.given /\ ~(0 < v.num /\ v.num < v.den)
Malformed(hp) ==
    /\ hp.ty = "list" /\ hp.items # <<>>
    /\ ~(Len(hp.items) = 1 /\ hp.items[1] \in DOMAIN TRIGPREC)
    /\ \/ Len(hp.items) % 2 = 1
       \/ \E i, j \in DOMAIN hp.items :
            i # j /\ hp.items[i] = hp.items[j] /\ hp.items[i] \in Range(TRIGLUTDEFS)
       \/ \E i \in DOMAIN hp.items :
            IF i % 2 = 1 THEN hp.items[i] \notin Range(TRIGLUTDEFS)
            ELSE hp.items[i] \notin DOMAIN TRIGPREC
ConfigurationError ==
    \/ \E v \in {gen.k, gen.tan_k, gen.atan_k} : OutOfRange(v)
    \/ Malformed(gen.argv.hp)
    \/ RequestedFold(gen.argv.table_mode) = "MED"
NothingComputed ==
    /\ gen.phis = NoDomains /\ gen.xs = NoDomains /\ gen.N = NoN /\ gen.iter = 0
    /\ gen.luts_to_w = <<>> /\ gen.files = {}

SolverGaveUp == gen.N.ret = "None"

\* C14: when newton_raphson_N returns None the run does not crash: it goes
\* on, without a size made up for ATAN, to the tables of the other selected
\* functions.
C14_NonConvergenceIsReported ==
    SolverGaveUp =>
        /\ gen.pc # "raised"
        /\ "ATAN" \notin DOMAIN gen.xs
        /\ gen.pc = "written" =>
                \A m \in Range(TRIGLUTDEFS) \ {"ATAN"} :
                    Selected(gen.trig_opts, m) =>
                        \E file \in gen.files : file.lut.fn = TRIGLUTFNDEFS[m]
\* the evaluate loop has acted on function m, whose domain is empty
EmptyDomain(m) ==
    /\ Past("atan") /\ Selected(gen.trig_opts, m)
    /\ m \in DOMAIN DomainsOf(m) /\ DomainsOf(m)[m] = <<>>

\* C15: assess_lut_accuracy gives a null report and does not raise for an
\* empty domain; the run goes on from it, and writes the table of the
\* function with a null report.
C15_DegenerateAssessment ==
    \A m \in Range(TRIGLUTDEFS) :
        (EmptyDomain(m) /\ \A n \in Range(TRIGLUTDEFS) :
                              Selected(gen.trig_opts, n) => n \in DOMAIN gen.hp) =>
            /\ gen.pc # "raised"
            /\ gen.pc = "written" =>
                    \E file \in gen.files :
                        /\ file.lut.fn = TRIGLUTFNDEFS[m]
                        /\ file.lut.acc_report = "None"

\* the rest of main() from the blocks on, as one function of its state: a
\* block is skipped once an exception has left main(), and the solver's
\* result is supplied as N
Unless(raised, g, next) == IF raised THEN g ELSE next
AtanStage(g, N) ==
    IF g.pc = "raised" THEN g
    ELSE IF AtanFold(g).pc = "newton" THEN AtanBlock(AtanFold(g), N)
    ELSE AtanFold(g)
RunBlocks(g, N) ==
    LET tan == Unless(SinusoidBlock(g).pc = "raised", SinusoidBlock(g),
                      TanBlock(SinusoidBlock(g)))
        arc == Unless(tan.pc = "raised", tan, ArcSinusoidBlock(tan))
        atan == AtanStage(arc, N)
        luts == Unless(atan.pc = "raised", atan, EvaluateLoop(atan, TRIGLUTDEFS))
    IN  Unless(luts.pc = "raised", luts, WriteLoop(luts))

\* the run of the same arguments that selects m alone
Alone(m) ==
    RunBlocks([gen EXCEPT !.pc = "checked", !.trig_opts = TRIG_LUTS(m),
                          !.phis = NoDomains, !.xs = NoDomains, !.N = NoN,
                          !.N_current = 0, !.iter = 0, !.out = {}, !.luts_to_w = <<>>,
                          !.files = {}, !.err = "none", !.at = "none"], gen.N)

\* the file of function m a run ends with, if any
FilesOf(g, m) ==
    IF g.pc = "written" THEN {file \in g.files : file.lut.fn = TRIGLUTFNDEFS[m]} ELSE {}

\* C16: a run that has ended leaves for each selected function the file, or
\* the failure, that the run selecting this function alone leaves for it.
C16_Independence ==
    (gen.pc \in {"written", "raised"} /\ Past("checked")) =>
        \A m \in Range(TRIGLUTDEFS) :
            (Selected(gen.trig_opts, m) /\ (m = "ATAN" => gen.N # NoN)) =>
                FilesOf(gen, m) = FilesOf(Alone(m), m)
IsPowerOfTwo(n) == \E m \in 0..30 : n = 2 ^ m
\* c = ceil(pi / (2 k)) for the threshold k
IsCeilPiOver2k(c, k) ==
    /\ c * 2 * k.num * Unit >= pi * k.den
    /\ (c - 1) * 2 * k.num * Unit < pi * k.den

\* C17: in QUARTER (HIGH) fold the TAN domain has the smallest power of two
\* of entries that is >= ceil(pi / (2 tan_k)) + 1, whatever the budget; for
\* tan_k = 0.05 these are 64 entries.
C17_TanLength ==
    ("TAN" \in DOMAIN gen.phis /\ gen.table_mode.map["TAN"] = "HIGH") =>
        LET sz == Len(gen.phis["TAN"])
        IN  /\ \E c \in 1..64 :
                    /\ IsCeilPiOver2k(c, gen.tan_k)
                    /\ IsPowerOfTwo(sz) /\ sz >= c + 1 /\ sz \div 2 < c + 1
            /\ (gen.tan_k.num = 1 /\ gen.tan_k.den = 20) => sz = 64

\* the 64 entries of tan_k = 0.05 under a budget of three entries
C17_Witness ==
    /\ "TAN" \in DOMAIN gen.phis /\ Len(gen.phis["TAN"]) = 64
    /\ gen.tan_k = Default(1, 20) /\ gen.N_TABLE_ENTRIES = 3
\* results of the solver around the values where the size changes
SolverResults ==
    {-Unit, -1, 0, 1, Unit \div 2, Unit \div 2 + 1, Unit, Unit + 1, 2 * Unit,
     2 * Unit + 1, 3 * Unit, 8 * Unit, 12738488, 35776894, 89996586, 1000 * Unit}

\* C18: the domain of TAN and of ATAN sized from the tolerance (QUARTER,
\* HIGH fold) has 2^m entries, m >= 0, for every tolerance and every result
\* of the solver that gives a table; so has every table written for them.
C18_PowerOfTwo ==
    /\ \A N \in SolverResults : AtanSz(N).err = "none" => IsPowerOfTwo(AtanSz(N).sz)
    /\ \A m \in {"TAN", "ATAN"} :
            (m \in DOMAIN DomainsOf(m) /\ gen.table_mode.map[m] = "HIGH") =>
                IsPowerOfTwo(Len(DomainsOf(m)[m]))
    /\ \A file \in gen.files :
            (file.lut.fn \in {"tan", "arctan"} /\ file.lut.table_mode = "HIGH") =>
                IsPowerOfTwo(Len(file.lut.lut))

\* the ATAN table of atan_k = 0.05 is written: N = 89.99.. gives 128 entries
C18_Witness ==
    /\ gen.pc = "written" /\ gen.N.ret = "value" /\ gen.atan_k = Threshold(1, 20)
    /\ \E file \in gen.files : file.lut.fn = "arctan" /\ Len(file.lut.lut) = 128
\* newton_raphson_N is running, or has returned
Solving == gen.pc = "newton"
Returned == gen.N # NoN

\* C19: newton_raphson_N starts from N = 8 and makes at most 100 passes;
\* it always returns, either the new iterate, when it differs from the
\* last one by less than the tolerance, or None, when |f'(N)| is below the
\* tolerance or the 100 passes are used up.
C19_SolverOutcomes ==
    /\ [](/\ (Solving /\ gen.iter = 0) => gen.N_current = 8 * Unit
          /\ gen.iter <= 100
          /\ Solving => ~Returned
          /\ Returned =>
                LET f_prime == f_prime_N(gen.N_current, gen.atan_k)
                    new == N_next(gen.N_current, f_N(gen.N_current, gen.atan_k), f_prime)
                IN  IF BelowTolerance(f_prime)
                    THEN gen.N = NoneN
                    ELSE \/ /\ gen.N = ValueN(new)
                            /\ BelowTolerance(new - gen.N_current)
                         \/ /\ gen.N = NoneN
                            /\ gen.iter = 100
                            /\ ~BelowTolerance(new - gen.N_current))
    /\ [][Solving => Returned' \/ (Solving' /\ gen'.iter = gen.iter + 1)]_vars
    /\ (Solving ~> Returned)

\* the solver gave up after its 100 passes
C19_Witness == gen.N = NoneN /\ gen.iter = 100
\* k - 0.5 ln(N^2 + 1) / N, in units
Residual(N, k) ==
    MulDiv(k.num, Unit, k.den) - MulDiv(log(denominator_f_prime(N)), Unit, 2 * N)

\* the thresholds 0.05, 0.1 and 0.2
IsTested(k) == \E den \in {20, 10, 5} : k.num * den = k.den

\* C20: for k in {0.05, 0.1, 0.2} a value N returned by the ATAN solver
\* satisfies |k - 0.5 ln(N^2 + 1) / N| < 1e-4; whenever the solver does not
\* return such a value it returns None.
C20_SolverResidual ==
    (Returned /\ IsTested(gen.atan_k)) =>
        IF gen.N.ret = "value"
        THEN Abs(Residual(gen.N.val, gen.atan_k)) < Unit \div 10000
        ELSE gen.N = NoneN

\* the solver returned a value for k = 0.2, and the run wrote its table
C20_Witness ==
    /\ gen.atan_k = Threshold(1, 5) /\ gen.N.ret = "value"
    /\ gen.pc = "written"
\* the sizing of ATAN has its N, and the error estimate of line 482 is more
\* than 10% of k away from k
EstimateIsOff ==
    gen.N.ret = "value" /\ gen.N.val # 0
        /\ 10 * Abs(Residual(gen.N.val, gen.atan_k))
                > MulDiv(gen.atan_k.num, Unit, gen.atan_k.den)

\* C21: in the sizing of ATAN from its threshold, the message of lines
\* 485-489 is printed when 0.5 ln(N^2 + 1) / N is more than 10% of k away
\* from k, and only then; the run goes on after it.
C21_EstimateWarning ==
    (gen.N.ret = "value" /\ gen.N.val # 0) =>
        /\ "couldn't find an optimal table size" \in gen.out <=> EstimateIsOff
        /\ EstimateIsOff => gen.pc # "raised"
\* a threshold strictly inside (0, 1)
InsideUnitInterval(v) == 0 < v.num /\ v.num < v.den

\* parse_args has refused the command line, and nothing was sized
Refused ==
    /\ gen.pc = "raised" /\ gen.err = "SystemExit" /\ gen.at = "argv"
    /\ gen.phis = NoDomains /\ gen.xs = NoDomains /\ gen.N = NoN

\* C22: a threshold given on the command line is accepted only strictly
\* inside (0, 1); any other ends the run in parse_args, before TAN or ATAN
\* is sized, so the k either sizing uses satisfies 0 < k < 1.
C22_ThresholdRange ==
    /\ \A v \in {gen.k, gen.tan_k, gen.atan_k} :
            (v.given /\ ~InsideUnitInterval(v)) => (gen.pc = "argv" \/ Refused)
    /\ (gen.pc = "tan" /\ Selected(gen.trig_opts, "TAN")) =>
            InsideUnitInterval(gen.tan_k)
    /\ (gen.pc = "raised" /\ gen.at = "sinusoids") => InsideUnitInterval(gen.tan_k)
    /\ (Solving \/ Returned) => InsideUnitInterval(gen.atan_k)

\* -tan-k 0 was refused
C22_Witness == Refused /\ gen.tan_k = Threshold(0, 1)
\* line 344: the sz of a budget of N entries in a fold and a precision mode
SzFor(N, table_mode, table_prec) ==
    N \div _calculate_scale_factor(table_mode, table_prec)

\* C23: for the budget and width of a run, the table length sized from the
\* budget does not decrease from LOWP to MEDP to HIGHP in any fold mode, and
\* in any precision mode the length of LOW (full) fold is at least that of
\* HIGH (quarter) fold; the domains the run builds have these lengths.
C23_MonotonicSizing ==
    /\ \A fold \in DOMAIN TRIGFOLD : \A p, q \in DOMAIN TRIGPREC :
            TRIGPREC[p] <= TRIGPREC[q] =>
                SzFor(gen.N_TABLE_ENTRIES, fold, p) <= SzFor(gen.N_TABLE_ENTRIES, fold, q)
    /\ \A p \in DOMAIN TRIGPREC :
            SzFor(gen.N_TABLE_ENTRIES, "LOW", p) >= SzFor(gen.N_TABLE_ENTRIES, "HIGH", p)
    /\ \A k \in _SINUSOIDS \cup _ARC_SINUSOIDS :
            k \in DOMAIN DomainsOf(k) =>
                Len(DomainsOf(k)[k]) =
                    SzFor(gen.N_TABLE_ENTRIES, gen.table_mode.map[k], gen.hp[k])

\* SIN was sized in HIGHP, longer than LOWP would have made it, and COS
\* in MEDP
C23_Witness ==
    /\ "SIN" \in DOMAIN gen.phis /\ "COS" \in DOMAIN gen.phis
    /\ gen.hp["SIN"] = "HIGHP" /\ gen.hp["COS"] = "MEDP"
    /\ Len(gen.phis["SIN"]) = gen.N_TABLE_ENTRIES
    /\ Len(gen.phis["COS"]) < Len(gen.phis["SIN"])
    /\ SzFor(gen.N_TABLE_ENTRIES, "HIGH", "LOWP") < Len(gen.phis["COS"])
\* the functions the command line asks for
Asked ==
    IF gen.flags # {} THEN gen.flags
    ELSE IF gen.all THEN Range(TRIGLUTDEFS)
    ELSE {"SIN", "TAN", "ASIN", "ATAN"}

\* C24: without a function flag the run generates SIN, TAN, ASIN and ATAN,
\* and all six functions with --all; with function flags it generates the
\* flagged functions and no other. The tables built and the files written
\* are those of these functions.
C24_Selection ==
    /\ (gen.pc = "sized" \/ Past("sized")) =>
            \A m \in Range(TRIGLUTDEFS) : Selected(gen.trig_opts, m) <=> m \in Asked
    /\ gen.pc \in {"evaluated", "written"} =>
            {lut.fn : lut \in Range(gen.luts_to_w)} = {TRIGLUTFNDEFS[m] : m \in Asked}
    /\ gen.pc = "written" =>
            /\ {file.lut.fn : file \in gen.files} = {TRIGLUTFNDEFS[m] : m \in Asked}
            /\ Cardinality(gen.files) = Cardinality(Asked)

\* a run without function flags and without --all has written its four files
C24_Witness ==
    /\ gen.flags = {} /\ ~gen.all /\ gen.pc = "written"
    /\ {file.lut.fn : file \in gen.files} = {"sin", "tan", "arcsin", "arctan"}
\* C25: for the SIN table T of HIGH (quarter) fold, the value reconstructed
\* by the quadrant rules for an angle theta in [0, 2 pi) is within T's own
\* max_acc of sin(theta).
C25_FoldingCorrectness ==
    (rcv.pc = "recovering" /\ rcv.theta < TwoPi) =>
        Abs(rcv.reconstructed - np_sin(rcv.theta)) <= rcv.acc_report.max_acc
\* the point j (from 0) of the evenly spaced grid of n points over [lo, hi]
EvenGrid(lo, hi, n, j) == lo + MulDivRem(hi - lo, j, n - 1).q

Assessed == rcv.pc \in {"assessed", "recovering"}

\* C26: for a domain of length L >= 2 and an oversample factor O >= 1 the
\* report has L scores, score i is |table[i] - f(g[min(i * O, O * L - 1)])|
\* for the evenly spaced grid g of O * L points over [min(domain),
\* max(domain)], and avg, min and max are the mean, the least and the
\* greatest of these scores.
C26_AccuracyReport ==
    Assessed =>
        LET L == Len(rcv.axis)
            O == rcv.osf
            lo == np_min(rcv.axis)
            hi == np_max(rcv.axis)
            picked(i) == IF i * O < O * L - 1 THEN i * O ELSE O * L - 1
            score == rcv.acc_report.acc_scores
        IN  /\ Len(score) = L
            /\ \A i \in 0..(L - 1) :
                    score[i + 1] =
                        Abs(rcv.lut[i + 1] - np_sin(EvenGrid(lo, hi, O * L, picked(i))))
            /\ rcv.acc_report.avg_acc = np_sum(score) \div L
            /\ \A i \in 1..L : /\ rcv.acc_report.min_acc <= score[i]
                                /\ rcv.acc_report.max_acc >= score[i]
            /\ \E i \in 1..L : rcv.acc_report.min_acc = score[i]
            /\ \E i \in 1..L : rcv.acc_report.max_acc = score[i]

\* a table of sixteen entries has been assessed against a grid 128 times
\* as fine, and its scores are not all equal
C26_Witness ==
    /\ Assessed /\ Len(rcv.axis) = 16 /\ rcv.osf = 128
    /\ rcv.acc_report.min_acc < rcv.acc_report.max_acc

\* C27: for every oversample factor O >= 1 the reference point selected for
\* the table index i has the abscissa of domain[i], the last one being
\* max(domain) (to within the resolution of the arithmetic).
C27_SameAbscissa ==
    Assessed =>
        \A i \in 1..Len(rcv.axis) :
            Abs(fn_eval_points(rcv.axis, rcv.osf)[i] - rcv.axis[i]) <= 2
\* the header a manager created for this one call writes for the LUT
FreshHeader(class, author_info, lut) ==
    _get_header([NewManager(class, author_info) EXCEPT
                    !.fmap = UpdateWithLut(@, lut)]).header

\* C28: the header written for a LUT is the one a fresh manager writes for
\* it, whatever was written through the manager before (the timestamp
\* aside); a LUT without an accuracy report gets 'N/A' accuracy fields.
C28_HeaderOfLutOnly ==
    (last.op = "write" /\ last.err = "none") =>
        \E hd \in {FreshHeader(mgr.class, mgr.author_info, last.lut)} :
            SubSeq(fs[last.path].text, 1, Len(hd)) = hd
\* the window that mirroring the stored coefficients gives
Mirrored(stored) == stored \o Reverse(stored)

\* C29: the LUT holds the first size // 2 coefficients of the window, and
\* for every window the generator designs the whole window is got back
\* from the stored coefficients by mirroring them.
C29_HalfWindowMirrors ==
    \A n \in 1..Len(dsd.luts_to_w) :
        /\ dsd.luts_to_w[n].lut =
               SubSeq(dsd.luts_to_w[n].coeffs, 1, Len(dsd.luts_to_w[n].coeffs) \div 2)
        /\ Mirrored(dsd.luts_to_w[n].lut) = dsd.luts_to_w[n].coeffs

\* C30: in one run every LUT goes to a file name of its own, so no write
\* replaces a file of the run and every LUT is in the directory at the end.
C30_OwnFilePerLut ==
    dsd.pc = "done" =>
        /\ Cardinality(dsd.files) = Len(dsd.luts_to_w)
        /\ \A n \in 1..Len(dsd.luts_to_w) :
                \E f \in dsd.files : f.lut = dsd.luts_to_w[n].lut
====
